---- MODULE Spec2Model ----
(***************************************************************************)
(* A model of the sprout-ai symptom engine (package ai_engine and the      *)
(* MedicalChatBot of chatgpt_interface.py).                                *)
(*                                                                         *)
(* Python strings are modelled as sequences of one-character strings, so   *)
(* that `in` (substring), lower(), strip(), split(), replace() and join()  *)
(* are computed character by character as Python computes them.  Python    *)
(* dicts are sequences of <<key, value>> pairs in insertion order, Python  *)
(* lists are sequences.  Where the code iterates a set (list(set(..)),     *)
(* max(set(..))) the order is a nondeterministic choice.                   *)
(***************************************************************************)
EXTENDS Integers, Sequences, FiniteSets, TLC

VARIABLES
    SYMPTOM_MAP,          \* ai_engine.symptoms.SYMPTOM_MAP
    EMERGENCY_SYMPTOMS,   \* ai_engine.safety.EMERGENCY_SYMPTOMS
    REMEDY_DB,            \* ai_engine.remedies.REMEDY_DB
    PRECAUTIONS_DB,       \* ai_engine.remedies.PRECAUTIONS_DB
    symptom_map,          \* AdvancedDiagnosisEngine.symptom_map
    disease_symptoms,     \* AdvancedDiagnosisEngine.disease_symptoms
    symptom_weights,      \* AdvancedDiagnosisEngine.symptom_weights
    conversation_history, \* MedicalChatBot.conversation_history
    advanced_mode,        \* MedicalChatBot.advanced_mode
    last_diagnosis,       \* MedicalChatBot.last_diagnosis
    current_symptoms,     \* MedicalChatBot.current_symptoms
    remedy_database,      \* EnhancedRemedySystem.remedy_database
    precautions_database, \* EnhancedRemedySystem.precautions_database
    checker_symptoms,     \* ComprehensiveSymptomChecker.current_symptoms
    answered_questions,   \* ComprehensiveSymptomChecker.answered_questions
    session_data,         \* ComprehensiveSymptomChecker.session_data
    alone,                \* per session: the checker it would have to itself
    calls,                \* the number of entry-point calls made so far
    chatbot_sessions,     \* web_interface.chatbot_sessions
    chatbots,             \* the MedicalChatBot objects constructed so far
    cookie,               \* per browser: the session_id of its Flask session
    requests,             \* per server thread: the request it is serving
    served,               \* per session_id: the chatbots made for it and used by it
    text,                 \* the text handed to the entry point
    call,                 \* the entry point that has returned ("none" before)
    result                \* what it returned

vars == <<SYMPTOM_MAP, EMERGENCY_SYMPTOMS, REMEDY_DB, PRECAUTIONS_DB,
          symptom_map, disease_symptoms, symptom_weights,
          conversation_history, advanced_mode, last_diagnosis, current_symptoms,
          remedy_database, precautions_database,
          checker_symptoms, answered_questions, session_data, alone, calls,
          chatbot_sessions, chatbots, cookie, requests, served,
          text, call, result>>

\* the state of the web shell
Web == <<chatbot_sessions, chatbots, cookie, requests, served>>

-----------------------------------------------------------------------------
(* Strings *)

\* The character sequence of a string literal: its one-character strings.
Str(s) == [i \in 1..Len(s) |-> SubSeq(s, i, i)]

SP == " "

UpperChars == <<"A","B","C","D","E","F","G","H","I","J","K","L","M",
                "N","O","P","Q","R","S","T","U","V","W","X","Y","Z">>
LowerChars == <<"a","b","c","d","e","f","g","h","i","j","k","l","m",
                "n","o","p","q","r","s","t","u","v","w","x","y","z">>

\* str.lower() on one character
LowerChar(c) ==
    IF \E i \in 1..Len(UpperChars) : UpperChars[i] = c
    THEN LowerChars[CHOOSE i \in 1..Len(UpperChars) : UpperChars[i] = c]
    ELSE c

\* str.lower()
Lower(s) == [i \in 1..Len(s) |-> LowerChar(s[i])]

\* s[i:].startswith(p), i counted from 1
StartsAt(s, p, i) ==
    /\ i >= 1
    /\ i + Len(p) - 1 <= Len(s)
    /\ \A k \in 1..Len(p) : s[i + k - 1] = p[k]

\* Python's `p in s` on strings
Contains(s, p) == \E i \in 1..(Len(s) - Len(p) + 1) : StartsAt(s, p, i)

\* str.strip() (the only whitespace of the modelled texts is the space)
Strip(s) ==
    IF \A i \in 1..Len(s) : s[i] = SP THEN <<>>
    ELSE LET first == CHOOSE i \in 1..Len(s) :
                          s[i] # SP /\ \A j \in 1..(i - 1) : s[j] = SP
             last  == CHOOSE i \in 1..Len(s) :
                          s[i] # SP /\ \A j \in (i + 1)..Len(s) : s[j] = SP
         IN  SubSeq(s, first, last)

\* sep.join(parts)
RECURSIVE Join(_, _)
Join(parts, sep) ==
    IF Len(parts) = 0 THEN <<>>
    ELSE IF Len(parts) = 1 THEN parts[1]
    ELSE parts[1] \o sep \o Join(Tail(parts), sep)

-----------------------------------------------------------------------------
(* Dicts: sequences of <<key, value>> in insertion order *)

DictKeys(d) == [i \in 1..Len(d) |-> d[i][1]]
DictHas(d, k) == \E i \in 1..Len(d) : d[i][1] = k
DictGet(d, k, default) ==
    IF DictHas(d, k)
    THEN d[CHOOSE i \in 1..Len(d) : d[i][1] = k][2]
    ELSE default

\* Python's None
None == [none |-> TRUE]

-----------------------------------------------------------------------------
(* Static data: the built-in fallback tables and the data files *)

\* symptoms.py: the table load_symptom_map falls back to
FallbackSymptomMap == <<
    <<Str("fever"), Str("viral infection")>>,
    <<Str("high temperature"), Str("viral infection")>>,
    <<Str("cold"), Str("common cold")>>,
    <<Str("runny nose"), Str("common cold")>>,
    <<Str("cough"), Str("respiratory irritation")>>,
    <<Str("dry cough"), Str("respiratory irritation")>>,
    <<Str("sore throat"), Str("throat infection")>>,
    <<Str("throat pain"), Str("throat infection")>>,
    <<Str("body pain"), Str("viral infection")>>,
    <<Str("headache"), Str("stress or dehydration")>>,
    <<Str("acidity"), Str("gastric issue")>>,
    <<Str("burning sensation"), Str("gastric issue")>>,
    <<Str("stomach pain"), Str("gastric issue")>>,
    <<Str("vomiting"), Str("digestive upset")>>,
    <<Str("loose motion"), Str("digestive upset")>> >>

\* safety.py: the list load_emergency_symptoms falls back to
FallbackEmergencySymptoms == <<
    Str("chest pain"), Str("difficulty breathing"), Str("severe bleeding"),
    Str("unconscious"), Str("seizure"), Str("high fever"),
    Str("blurred vision"), Str("severe headache") >>

\* remedies.py: the remedy table load_remedy_database falls back to
\* (a remedy record is represented by its "remedy" name)
FallbackRemedyDb == <<
    <<Str("viral infection"), <<"Ginger Tea", "Turmeric Milk">> >>,
    <<Str("common cold"), <<"Tulsi Tea">> >>,
    <<Str("throat infection"), <<"Salt Water Gargle">> >>,
    <<Str("gastric issue"), <<"Aloe Vera Juice">> >>,
    <<Str("digestive upset"), <<"Jeera Water">> >> >>

\* remedies.py: the precaution table of the fallback (empty)
FallbackPrecautionsDb == <<>>

\* A data/symptoms.json as update_dataset.py writes it: the Kaggle symptom
\* names merged with the hand-written symptom map.
KaggleSymptomsFile == [
    state |-> "ok",
    symptom_map |-> <<
        <<Str("high fever"), Str("malaria")>>,
        <<Str("chest pain"), Str("heart attack")>>,
        <<Str("vomiting"), Str("malaria")>>,
        <<Str("itching"), Str("fungal infection")>>,
        <<Str("fever"), Str("viral infection")>>,
        <<Str("headache"), Str("stress or dehydration")>>,
        <<Str("sore throat"), Str("throat infection")>> >>,
    disease_symptoms |-> <<
        <<Str("malaria"), <<Str("high fever"), Str("vomiting"), Str("headache")>> >>,
        <<Str("heart attack"), <<Str("chest pain"), Str("vomiting")>> >>,
        <<Str("fungal infection"), <<Str("itching")>> >> >> ]

\* The states of a data file: absent, present but not valid JSON, valid JSON
\* that is no object (a top-level list), and a JSON object (state "ok") whose
\* fields are the keys it holds.
MissingFile == [state |-> "missing"]

InvalidJsonFile == [state |-> "invalid"]

ListFile == [state |-> "list"]

SymptomsFiles == {MissingFile, KaggleSymptomsFile}

\* A data/remedies.json as update_dataset.py writes it
KaggleRemediesFile == [
    state |-> "ok",
    remedy_database |-> <<
        <<Str("viral infection"), <<"Ginger Tea", "Turmeric Milk">> >>,
        <<Str("throat infection"), <<"Salt Water Gargle", "Honey Lemon Tea">> >>,
        <<Str("malaria"), <<"Neem Tea">> >> >>,
    disease_precautions |-> <<
        <<Str("malaria"), <<"consult nearest hospital", "avoid oily food">> >>,
        <<Str("heart attack"), <<"call ambulance">> >> >>,
    emergency_symptoms |-> <<
        Str("chest pain"), Str("difficulty breathing"), Str("seizure"),
        Str("high fever") >> ]

RemediesFiles == {MissingFile, KaggleRemediesFile}

\* What a loader call does: it returns a value, or an exception that its
\* except clause does not name leaves it.
Returned(value) == [raised |-> FALSE, value |-> value]

Raised(exception) == [raised |-> TRUE, exception |-> exception]

\* open() and json.load(): the exceptions the three module-level loaders
\* catch are FileNotFoundError, KeyError and json.JSONDecodeError
Caught(file) == file.state = "missing" \/ file.state = "invalid"

\* symptoms.py load_symptom_map: data['symptom_map'] is a KeyError on an
\* object without the key and a TypeError on a list
load_symptom_map(file) ==
    IF Caught(file) THEN Returned(FallbackSymptomMap)
    ELSE IF file.state = "list" THEN Raised("TypeError")
    ELSE IF "symptom_map" \notin DOMAIN file THEN Returned(FallbackSymptomMap)
    ELSE Returned(file.symptom_map)

\* safety.py load_emergency_symptoms
load_emergency_symptoms(file) ==
    IF Caught(file) THEN Returned(FallbackEmergencySymptoms)
    ELSE IF file.state = "list" THEN Raised("TypeError")
    ELSE IF "emergency_symptoms" \notin DOMAIN file THEN Returned(FallbackEmergencySymptoms)
    ELSE Returned(file.emergency_symptoms)

\* data.get(key, {}) on a JSON object
GetOrEmpty(file, key) == IF key \in DOMAIN file THEN file[key] ELSE <<>>

\* remedies.py load_remedy_database: <<REMEDY_DB, PRECAUTIONS_DB>>;
\* data.get is an AttributeError on a list
load_remedy_database(file) ==
    IF Caught(file) THEN Returned(<<FallbackRemedyDb, FallbackPrecautionsDb>>)
    ELSE IF file.state = "list" THEN Raised("AttributeError")
    ELSE Returned(<<GetOrEmpty(file, "remedy_database"),
                    GetOrEmpty(file, "disease_precautions")>>)

-----------------------------------------------------------------------------
(* safety.py, diagnosis.py, remedies.py *)

EmergencyMessage == "Possible medical emergency detected. Seek immediate medical help."

\* a variant that compares the text as typed, without lower()
check_emergency_as_typed(symptom_text) ==
    IF \E i \in 1..Len(EMERGENCY_SYMPTOMS) : Contains(symptom_text, EMERGENCY_SYMPTOMS[i])
    THEN [emergency |-> TRUE, level |-> "critical", message |-> EmergencyMessage]
    ELSE [emergency |-> FALSE, level |-> "normal"]

\* safety.py check_emergency
check_emergency(symptom_text) ==
    LET t == Lower(symptom_text) IN
    IF \E i \in 1..Len(EMERGENCY_SYMPTOMS) : Contains(t, EMERGENCY_SYMPTOMS[i])
    THEN [emergency |-> TRUE, level |-> "critical", message |-> EmergencyMessage]
    ELSE [emergency |-> FALSE, level |-> "normal"]

\* diagnosis.py: matched_conditions, one entry per keyword of SYMPTOM_MAP
\* found in the lower-cased text, in table order
matched_conditions(symptom_text) ==
    LET t == Lower(symptom_text)
        hit == SelectSeq(SYMPTOM_MAP, LAMBDA kv : Contains(t, kv[1]))
    IN  [i \in 1..Len(hit) |-> hit[i][2]]

\* list.count
Count(seq, x) == Cardinality({i \in 1..Len(seq) : seq[i] = x})

\* set(seq)
ToSet(seq) == {seq[i] : i \in 1..Len(seq)}

\* a variant that takes the least frequent condition, min(set(..), key=count)
least_frequent(mc) ==
    {d \in ToSet(mc) : \A e \in ToSet(mc) : Count(mc, d) <= Count(mc, e)}

\* max(set(matched_conditions), key=matched_conditions.count): the first
\* maximal element in the set's iteration order, which for strings differs
\* from run to run, so any maximal condition can come out
final_condition(mc) ==
    {d \in ToSet(mc) : \A e \in ToSet(mc) : Count(mc, e) <= Count(mc, d)}

\* diagnosis.py diagnose: the results it can return
diagnose(symptom_text) ==
    LET mc == matched_conditions(symptom_text) IN
    IF Len(mc) = 0
    THEN {[condition |-> Str("unknown"), confidence |-> "low",
           message |-> "Symptoms are unclear. Please consult a doctor if they persist."]}
    ELSE {[condition |-> c,
           confidence |-> IF Len(mc) >= 2 THEN "high" ELSE "medium"] :
            c \in final_condition(mc)}

\* a variant that returns the records of the table entry last to first
get_remedies_reversed(condition) ==
    LET entry == DictGet(REMEDY_DB, condition, <<>>)
    IN  [i \in 1..Len(entry) |-> entry[Len(entry) + 1 - i]]

\* remedies.py get_remedies
get_remedies(condition) == DictGet(REMEDY_DB, condition, <<>>)

\* remedies.py get_precautions
get_precautions(condition) == DictGet(PRECAUTIONS_DB, condition, <<>>)

\* a variant that diagnoses first and reports the emergency only when the
\* diagnosis is unknown
analyze_symptoms_diagnosis_first(symptom_text) ==
    LET emergency_result == check_emergency(symptom_text) IN
    {IF diagnosis_result.condition = Str("unknown") /\ emergency_result.emergency
     THEN [emergency |-> emergency_result,
           diagnosis |-> None,
           remedies |-> <<>>,
           precautions |-> <<>>,
           warning |-> "EMERGENCY DETECTED - Seek immediate medical attention!"]
     ELSE [emergency |-> emergency_result,
           diagnosis |-> diagnosis_result,
           remedies |-> get_remedies(diagnosis_result.condition),
           precautions |-> get_precautions(diagnosis_result.condition),
           disclaimer |-> "This is for informational purposes only. Consult a healthcare professional for proper medical advice."] :
        diagnosis_result \in diagnose(symptom_text)}

\* __init__.py analyze_symptoms: the results it can return
analyze_symptoms(symptom_text) ==
    LET emergency_result == check_emergency(symptom_text) IN
    IF emergency_result.emergency
    THEN {[emergency |-> emergency_result,
           diagnosis |-> None,
           remedies |-> <<>>,
           precautions |-> <<>>,
           warning |-> "EMERGENCY DETECTED - Seek immediate medical attention!"]}
    ELSE {[emergency |-> emergency_result,
           diagnosis |-> diagnosis_result,
           remedies |-> get_remedies(diagnosis_result.condition),
           precautions |-> get_precautions(diagnosis_result.condition),
           disclaimer |-> "This is for informational purposes only. Consult a healthcare professional for proper medical advice."] :
            diagnosis_result \in diagnose(symptom_text)}

-----------------------------------------------------------------------------
(* Exact rationals <<numerator, denominator>> in lowest terms, for the     *)
(* floats of the scorer.  A division by zero is reported by the operator   *)
(* that performs it, as Python raises ZeroDivisionError.                   *)

RECURSIVE GCD(_, _)
GCD(a, b) == IF b = 0 THEN a ELSE GCD(b, a % b)

Rat(n, d) == LET g == GCD(n, d) IN IF g = 0 THEN <<0, 1>> ELSE <<n \div g, d \div g>>
RAdd(a, b) == Rat(a[1] * b[2] + b[1] * a[2], a[2] * b[2])
RMul(a, b) == Rat(a[1] * b[1], a[2] * b[2])
RDiv(a, b) == Rat(a[1] * b[2], a[2] * b[1])
RLe(a, b) == a[1] * b[2] <= b[1] * a[2]
RMax(a, b) == IF RLe(a, b) THEN b ELSE a
RMin(a, b) == IF RLe(a, b) THEN a ELSE b
Zero == Rat(0, 1)
One == Rat(1, 1)

-----------------------------------------------------------------------------
(* advanced_diagnosis.py: AdvancedDiagnosisEngine *)

\* load_medical_data: <<symptom_map, disease_symptoms>>; any failure leaves
\* both tables empty
load_medical_data(file) ==
    IF file.state = "ok"
    THEN <<GetOrEmpty(file, "symptom_map"), GetOrEmpty(file, "disease_symptoms")>>
    ELSE <<<<>>, <<>>>>

\* the symptoms of every profile, one entry per occurrence
RECURSIVE AllProfileEntries(_)
AllProfileEntries(ds) ==
    IF Len(ds) = 0 THEN <<>> ELSE ds[1][2] \o AllProfileEntries(Tail(ds))

\* a variant that weighs by frequency: max(1.0, disease_count / total_diseases)
SymptomFrequency(total_diseases, disease_count) ==
    RMax(One, Rat(disease_count, total_diseases))

\* the weight formula: max(1.0, total_diseases / disease_count)
SymptomWeight(total_diseases, disease_count) ==
    RMax(One, Rat(total_diseases, disease_count))

\* calculate_symptom_weights: the weight table, a function on the symptoms
\* that occur in some profile
calculate_symptom_weights(ds) ==
    LET entries == AllProfileEntries(ds) IN
    [s \in ToSet(entries) |-> SymptomWeight(Len(ds), Count(entries, s))]

\* self.symptom_weights.get(symptom, 1.0)
weight_of(symptom) ==
    IF symptom \in DOMAIN symptom_weights THEN symptom_weights[symptom] ELSE One

\* the symptom_variations table of extract_symptoms_from_text
symptom_variations == <<
    <<Str("headache"), <<Str("head pain"), Str("head ache"), Str("migraine")>> >>,
    <<Str("stomach pain"), <<Str("belly pain"), Str("tummy ache"), Str("abdominal pain")>> >>,
    <<Str("chest pain"), <<Str("chest ache"), Str("heart pain")>> >>,
    <<Str("joint pain"), <<Str("arthritis pain"), Str("bone pain")>> >>,
    <<Str("muscle pain"), <<Str("body ache"), Str("muscle ache")>> >>,
    <<Str("high fever"), <<Str("fever"), Str("temperature"), Str("hot")>> >>,
    <<Str("cough"), <<Str("coughing"), Str("dry cough")>> >>,
    <<Str("vomiting"), <<Str("throwing up"), Str("nausea"), Str("sick")>> >>,
    <<Str("diarrhea"), <<Str("loose motion"), Str("loose stool")>> >>,
    <<Str("fatigue"), <<Str("tired"), Str("exhausted"), Str("weakness")>> >>,
    <<Str("breathlessness"), <<Str("shortness of breath"), Str("difficulty breathing")>> >> >>

\* extract_symptoms_from_text: the set behind the returned list(set(..))
extract_symptoms_from_text(symptom_text) ==
    LET t == Strip(Lower(symptom_text))
        direct == {symptom_map[i][1] : i \in {j \in 1..Len(symptom_map) :
                                                Contains(t, symptom_map[j][1])}}
        varied == {symptom_variations[i][1] : i \in {j \in 1..Len(symptom_variations) :
                     /\ symptom_variations[j][1] \notin direct
                     /\ \E v \in 1..Len(symptom_variations[j][2]) :
                            Contains(t, symptom_variations[j][2][v])
                     /\ DictHas(symptom_map, symptom_variations[j][1])}}
    IN  direct \cup varied

\* the lists list(set(..)) can return: the set in any order
Orderings(S) ==
    {f \in [1..Cardinality(S) -> S] : \A i, j \in 1..Cardinality(S) : f[i] = f[j] => i = j}

\* a variant that stores the contribution instead of adding it:
\* disease_scores[k] = v
DictPut(d, k, v) ==
    IF DictHas(d, k)
    THEN [i \in 1..Len(d) |-> IF d[i][1] = k THEN <<k, v>> ELSE d[i]]
    ELSE Append(d, <<k, v>>)

\* disease_scores[k] += v on a defaultdict(float)
DictAdd(d, k, v) ==
    IF DictHas(d, k)
    THEN [i \in 1..Len(d) |-> IF d[i][1] = k THEN <<k, RAdd(d[i][2], v)>> ELSE d[i]]
    ELSE Append(d, <<k, v>>)

\* a variant without the first loop: only the profiles score
ScoreNoPrimary(symptoms, acc) == acc

\* calculate_disease_probability, first loop: every input symptom that is a
\* key of symptom_map adds its weight to its primary disease
RECURSIVE ScorePrimary(_, _)
ScorePrimary(symptoms, acc) ==
    IF Len(symptoms) = 0 THEN acc
    ELSE ScorePrimary(Tail(symptoms),
            IF DictHas(symptom_map, symptoms[1])
            THEN DictAdd(acc, DictGet(symptom_map, symptoms[1], None), weight_of(symptoms[1]))
            ELSE acc)

RECURSIVE SumWeights(_)
SumWeights(S) ==
    IF S = {} THEN Zero
    ELSE LET s == CHOOSE x \in S : TRUE IN RAdd(weight_of(s), SumWeights(S \ {s}))

\* a variant without the guard: every profile is scored
ProfileAlways(matched) == TRUE

\* `if matched_symptoms:` guards the match-percentage division
ProfileMatches(matched) == matched # {}

\* calculate_disease_probability, second loop over disease_symptoms.
\* zerodiv records a division by len(disease_symptom_list) = 0.
RECURSIVE ScoreProfiles(_, _, _)
ScoreProfiles(ds, symptoms, st) ==
    IF Len(ds) = 0 THEN st
    ELSE LET matched == ToSet(symptoms) \cap ToSet(ds[1][2]) IN
         ScoreProfiles(Tail(ds), symptoms,
            IF ProfileMatches(matched)
            THEN IF Len(ds[1][2]) = 0
                 THEN [st EXCEPT !.zerodiv = TRUE]
                 ELSE [st EXCEPT !.scores =
                        DictAdd(@, ds[1][1],
                                RMul(Rat(Cardinality(matched), Len(ds[1][2])),
                                     SumWeights(matched)))]
            ELSE st)

RECURSIVE MaxValue(_)
MaxValue(d) ==
    IF Len(d) = 1 THEN d[1][2] ELSE RMax(d[1][2], MaxValue(Tail(d)))

\* a variant that normalises by the sum of the scores
RECURSIVE SumValues(_)
SumValues(d) ==
    IF Len(d) = 1 THEN d[1][2] ELSE RAdd(d[1][2], SumValues(Tail(d)))

\* max_score = max(disease_scores.values())
max_score(disease_scores) == MaxValue(disease_scores)

\* calculate_disease_probability before the normalisation: disease_scores
\* as the two loops leave it ({} when the `if not symptoms` return is taken)
disease_scores(symptoms) ==
    IF Len(symptoms) = 0 THEN <<>>
    ELSE ScoreProfiles(disease_symptoms, symptoms,
            [zerodiv |-> FALSE, scores |-> ScorePrimary(symptoms, <<>>)]).scores

\* calculate_disease_probability: [raised, scores]; scores is the returned
\* dict in insertion order, raised tells that ZeroDivisionError was raised
calculate_disease_probability(symptoms) ==
    IF Len(symptoms) = 0 THEN [raised |-> FALSE, scores |-> <<>>]
    ELSE LET st == ScoreProfiles(disease_symptoms, symptoms,
                     [zerodiv |-> FALSE, scores |-> ScorePrimary(symptoms, <<>>)])
         IN  IF st.zerodiv THEN [raised |-> TRUE, scores |-> <<>>]
             ELSE IF Len(st.scores) = 0 THEN [raised |-> FALSE, scores |-> <<>>]
             ELSE IF max_score(st.scores)[1] = 0 THEN [raised |-> TRUE, scores |-> <<>>]
             ELSE [raised |-> FALSE,
                   scores |-> [i \in 1..Len(st.scores) |->
                        <<st.scores[i][1], RDiv(st.scores[i][2], max_score(st.scores))>>]]

\* a variant whose 'medium' row compares the wrong way round
get_confidence_level_medium_below(top_score, symptom_count) ==
    IF RLe(Rat(8, 10), top_score) /\ symptom_count >= 3 THEN "very high"
    ELSE IF RLe(Rat(6, 10), top_score) /\ symptom_count >= 2 THEN "high"
    ELSE IF RLe(top_score, Rat(4, 10)) THEN "medium"
    ELSE IF RLe(Rat(2, 10), top_score) THEN "low"
    ELSE "very low"

\* a variant that tries the 'high' row before the 'very high' row
get_confidence_level_high_first(top_score, symptom_count) ==
    IF RLe(Rat(6, 10), top_score) /\ symptom_count >= 2 THEN "high"
    ELSE IF RLe(Rat(8, 10), top_score) /\ symptom_count >= 3 THEN "very high"
    ELSE IF RLe(Rat(4, 10), top_score) THEN "medium"
    ELSE IF RLe(Rat(2, 10), top_score) THEN "low"
    ELSE "very low"

\* get_confidence_level
get_confidence_level(top_score, symptom_count) ==
    IF RLe(Rat(8, 10), top_score) /\ symptom_count >= 3 THEN "very high"
    ELSE IF RLe(Rat(6, 10), top_score) /\ symptom_count >= 2 THEN "high"
    ELSE IF RLe(Rat(4, 10), top_score) THEN "medium"
    ELSE IF RLe(Rat(2, 10), top_score) THEN "low"
    ELSE "very low"

\* sorted(disease_scores.items(), key=score, reverse=True): stable, so equal
\* scores keep the dict's insertion order
RECURSIVE InsertDesc(_, _)
InsertDesc(sorted, kv) ==
    IF Len(sorted) = 0 THEN <<kv>>
    ELSE IF RLe(kv[2], sorted[1][2]) THEN <<sorted[1]>> \o InsertDesc(Tail(sorted), kv)
    ELSE <<kv>> \o sorted

\* a variant that leaves the dict in insertion order
Unsorted(d) == d

RECURSIVE SortedDesc(_)
SortedDesc(d) ==
    IF Len(d) = 0 THEN <<>>
    ELSE InsertDesc(SortedDesc(SubSeq(d, 1, Len(d) - 1)), d[Len(d)])

\* round(score, 3)
Round3(r) == Rat((2 * 1000 * r[1] + r[2]) \div (2 * r[2]), 1000)

Min(a, b) == IF a <= b THEN a ELSE b

\* list(S)[:5]: five elements of the set, whichever its iteration gives first
FirstFive(S) == {M \in SUBSET S : Cardinality(M) = Min(5, Cardinality(S))}

\* get_differential_diagnosis: the candidate record of one ranked disease
\* (the lists matching_symptoms and missing_symptoms are kept as sets)
Candidate(disease, score, rank, symptoms, missing) ==
    LET disease_symptom_set == ToSet(DictGet(disease_symptoms, disease, <<>>)) IN
    [disease |-> disease,
     confidence |-> get_confidence_level(score, Len(symptoms)),
     score |-> Round3(score),
     rank |-> rank,
     matching_symptoms |-> disease_symptom_set \cap ToSet(symptoms),
     missing_symptoms |-> missing,
     total_disease_symptoms |-> Cardinality(disease_symptom_set)]

RECURSIVE Candidates(_, _, _)
Candidates(ranked, rank, symptoms) ==
    IF Len(ranked) = 0 THEN {<<>>}
    ELSE {<<Candidate(ranked[1][1], ranked[1][2], rank, symptoms, missing)>> \o rest :
            missing \in FirstFive(ToSet(DictGet(disease_symptoms, ranked[1][1], <<>>))
                                  \ ToSet(symptoms)),
            rest \in Candidates(Tail(ranked), rank + 1, symptoms)}

\* get_differential_diagnosis: the result lists it can return
get_differential_diagnosis(symptoms, top_n) ==
    LET sorted_diseases == SortedDesc(calculate_disease_probability(symptoms).scores)
    IN  Candidates(SubSeq(sorted_diseases, 1, Min(top_n, Len(sorted_diseases))), 1, symptoms)

\* the default of get_differential_diagnosis's top_n
DefaultTopN == 3

\* _get_symptom_suggestions
common_symptoms == <<
    Str("fever"), Str("headache"), Str("cough"), Str("stomach pain"), Str("chest pain"),
    Str("fatigue"), Str("nausea"), Str("vomiting"), Str("diarrhea"), Str("joint pain"),
    Str("muscle pain"), Str("skin rash"), Str("breathlessness"), Str("dizziness") >>

get_symptom_suggestions ==
    SelectSeq(common_symptoms, LAMBDA s : DictHas(symptom_map, s))

\* advanced_diagnose, given the list the extractor returned
AdvancedDiagnoseList(symptoms) ==
    IF Len(symptoms) = 0
    THEN {[primary_diagnosis |->
               [condition |-> Str("unknown"), confidence |-> "very low",
                message |-> "No recognizable symptoms found. Please describe your symptoms more specifically."],
           differential_diagnosis |-> <<>>,
           extracted_symptoms |-> <<>>,
           suggestions |-> get_symptom_suggestions]}
    ELSE {IF Len(differential) = 0
          THEN [primary_diagnosis |->
                    [condition |-> Str("unknown"), confidence |-> "very low",
                     message |-> "Unable to match symptoms to known conditions."],
                differential_diagnosis |-> <<>>,
                extracted_symptoms |-> symptoms,
                suggestions |-> <<>>]
          ELSE [primary_diagnosis |->
                    [condition |-> differential[1].disease,
                     confidence |-> differential[1].confidence,
                     score |-> differential[1].score,
                     matching_symptoms |-> differential[1].matching_symptoms,
                     missing_symptoms |-> differential[1].missing_symptoms],
                differential_diagnosis |-> Tail(differential),
                extracted_symptoms |-> symptoms,
                total_symptoms_analyzed |-> Len(symptoms)] :
            differential \in get_differential_diagnosis(symptoms, DefaultTopN)}

\* advanced_diagnose: the results it can return
advanced_diagnose(symptom_text) ==
    UNION {AdvancedDiagnoseList(symptoms) :
            symptoms \in Orderings(extract_symptoms_from_text(symptom_text))}

-----------------------------------------------------------------------------
(* enhanced_remedies.py: EnhancedRemedySystem *)

\* get_emergency_remedies: the emergency_conditions table, looked up by the
\* lower-cased condition; {} when the condition is not in it
emergency_conditions == <<
    <<Str("heart attack"),
      [immediate_actions |-> <<"Call 911 immediately", "Chew aspirin if available and not allergic",
                               "Sit down and rest", "Loosen tight clothing">>,
       warning |-> "This is a life-threatening emergency requiring immediate medical attention"]>>,
    <<Str("paralysis (brain hemorrhage)"),
      [immediate_actions |-> <<"Call 911 immediately", "Do not give food or water",
                               "Keep person calm and still", "Note time symptoms started">>,
       warning |-> "Brain hemorrhage requires immediate emergency medical care"]>>,
    <<Str("hepatitis e"),
      [immediate_actions |-> <<"Seek immediate medical attention", "Avoid alcohol completely",
                               "Stay hydrated with clear fluids", "Rest and avoid strenuous activity">>,
       warning |-> "Acute liver failure can be life-threatening"]>> >>

\* Python's empty dict {}
EmptyDict == <<>>

get_emergency_remedies(condition) ==
    DictGet(emergency_conditions, Lower(condition), EmptyDict)

\* load_remedy_data: <<remedy_database, precautions_database>>; any exception
\* is caught and leaves the two empty dicts of __init__
load_remedy_data(file) ==
    IF file.state = "ok"
    THEN <<GetOrEmpty(file, "remedy_database"), GetOrEmpty(file, "disease_precautions")>>
    ELSE <<EmptyDict, EmptyDict>>

\* initialize_comprehensive_remedies: the built-in table (a remedy record is
\* represented by its "remedy" name)
comprehensive_remedies == <<
    <<Str("fungal infection"), <<"Tea Tree Oil", "Apple Cider Vinegar", "Coconut Oil">> >>,
    <<Str("viral infection"), <<"Elderberry Syrup", "Ginger Tea", "Echinacea">> >>,
    <<Str("common cold"), <<"Honey and Lemon", "Steam Inhalation with Eucalyptus", "Zinc Lozenges">> >>,
    <<Str("bronchial asthma"), <<"Butterbur Extract", "Magnesium", "Quercetin">> >>,
    <<Str("gerd"), <<"Aloe Vera Juice", "Slippery Elm", "D-Limonene">> >>,
    <<Str("peptic ulcer diseae"), <<"Manuka Honey", "Cabbage Juice", "Licorice Root (DGL)">> >>,
    <<Str("diabetes"), <<"Cinnamon", "Bitter Melon", "Chromium Picolinate">> >>,
    <<Str("hypothyroidism"), <<"Kelp/Seaweed", "Brazil Nuts", "Ashwagandha">> >>,
    <<Str("hyperthyroidism"), <<"Lemon Balm", "L-Carnitine", "Bugleweed">> >>,
    <<Str("hypertension"), <<"Hibiscus Tea", "Garlic", "Hawthorn Berry">> >>,
    <<Str("heart attack"), <<"Immediate Medical Attention", "Aspirin (if available)">> >>,
    <<Str("arthritis"), <<"Turmeric with Black Pepper", "Fish Oil (Omega-3)", "Boswellia">> >>,
    <<Str("migraine"), <<"Feverfew", "Magnesium Glycinate", "Riboflavin (B2)">> >> >>

\* the merge of one built-in entry: a new disease is added at the end, a
\* disease already present gets the remedies whose name it did not have
MergeRemedies(database, disease, remedies) ==
    IF ~DictHas(database, disease)
    THEN Append(database, <<disease, remedies>>)
    ELSE LET existing_remedy_names == ToSet(DictGet(database, disease, <<>>))
             new_remedies == SelectSeq(remedies, LAMBDA r : r \notin existing_remedy_names)
         IN  [i \in 1..Len(database) |->
                 IF database[i][1] = disease
                 THEN <<disease, database[i][2] \o new_remedies>>
                 ELSE database[i]]

\* initialize_comprehensive_remedies, from entry i of the built-in table on
RECURSIVE MergeFrom(_, _)
MergeFrom(database, i) ==
    IF i > Len(comprehensive_remedies) THEN database
    ELSE MergeFrom(MergeRemedies(database, comprehensive_remedies[i][1],
                                 comprehensive_remedies[i][2]), i + 1)

initialize_comprehensive_remedies(database) == MergeFrom(database, 1)

\* EnhancedRemedySystem(): <<remedy_database, precautions_database>> after
\* __init__
EnhancedRemedySystem(file) ==
    <<initialize_comprehensive_remedies(load_remedy_data(file)[1]),
      load_remedy_data(file)[2]>>

\* EnhancedRemedySystem.get_remedies
enhanced_get_remedies(condition) == DictGet(remedy_database, Lower(condition), <<>>)

\* EnhancedRemedySystem.get_precautions
enhanced_get_precautions(condition) == DictGet(precautions_database, Lower(condition), <<>>)

\* get_lifestyle_recommendations: its table
lifestyle_recommendations == <<
    <<Str("diabetes"),
      <<"Follow a low-glycemic diet", "Exercise regularly (150 minutes/week)",
        "Monitor blood sugar levels", "Maintain healthy weight", "Stay hydrated",
        "Get adequate sleep (7-9 hours)">> >>,
    <<Str("hypertension"),
      <<"Reduce sodium intake (<2300mg/day)", "Increase potassium-rich foods",
        "Maintain healthy weight", "Exercise regularly", "Limit alcohol consumption",
        "Manage stress through meditation/yoga", "Quit smoking">> >>,
    <<Str("arthritis"),
      <<"Maintain healthy weight", "Low-impact exercise (swimming, walking)",
        "Apply heat/cold therapy", "Practice gentle stretching", "Use ergonomic tools",
        "Get adequate sleep">> >>,
    <<Str("gerd"),
      <<"Eat smaller, frequent meals", "Avoid trigger foods (spicy, acidic, fatty)",
        "Don't lie down after eating", "Elevate head of bed", "Maintain healthy weight",
        "Quit smoking", "Limit alcohol and caffeine">> >> >>

get_lifestyle_recommendations(condition) ==
    DictGet(lifestyle_recommendations, Lower(condition), <<>>)

\* get_dietary_recommendations: its table
dietary_recommendations == <<
    <<Str("diabetes"),
      [foods_to_include |-> <<"Leafy greens", "Fatty fish", "Nuts and seeds",
                              "Berries", "Sweet potatoes", "Legumes">>,
       foods_to_avoid |-> <<"Refined sugars", "White bread", "Processed foods",
                            "Sugary drinks", "Trans fats">>]>>,
    <<Str("hypertension"),
      [foods_to_include |-> <<"Bananas", "Leafy greens", "Berries", "Beets", "Oats",
                              "Garlic", "Dark chocolate">>,
       foods_to_avoid |-> <<"High sodium foods", "Processed meats", "Canned soups",
                            "Fast food", "Alcohol in excess">>]>>,
    <<Str("arthritis"),
      [foods_to_include |-> <<"Fatty fish", "Leafy greens", "Berries", "Cherries",
                              "Olive oil", "Nuts", "Turmeric">>,
       foods_to_avoid |-> <<"Processed foods", "Refined sugars", "Trans fats",
                            "Excessive omega-6 oils">>]>> >>

get_dietary_recommendations(condition) ==
    DictGet(dietary_recommendations, Lower(condition), EmptyDict)

-----------------------------------------------------------------------------
(* __init__.py: advanced_analyze_symptoms *)

\* emergency_result.get('suspected_condition', 'general'): check_emergency
\* never sets the key
suspected_condition(emergency_result) ==
    IF "suspected_condition" \in DOMAIN emergency_result
    THEN emergency_result.suspected_condition
    ELSE Str("general")

\* a variant without the 'unknown' branch
advanced_analyze_symptoms_always_diagnosed(symptom_text) ==
    LET emergency_result == check_emergency(symptom_text) IN
    IF emergency_result.emergency
    THEN {[type |-> "emergency",
           emergency |-> emergency_result,
           emergency_remedies |-> get_emergency_remedies(suspected_condition(emergency_result)),
           warning |-> "MEDICAL EMERGENCY DETECTED - Seek immediate professional help!"]}
    ELSE {[type |-> "advanced_diagnosis",
           primary_diagnosis |-> advanced_diagnosis.primary_diagnosis,
           differential_diagnosis |-> advanced_diagnosis.differential_diagnosis,
           extracted_symptoms |-> advanced_diagnosis.extracted_symptoms] :
            advanced_diagnosis \in advanced_diagnose(symptom_text)}

\* advanced_analyze_symptoms: the results it can return
advanced_analyze_symptoms(symptom_text) ==
    LET emergency_result == check_emergency(symptom_text) IN
    IF emergency_result.emergency
    THEN {[type |-> "emergency",
           emergency |-> emergency_result,
           emergency_remedies |-> get_emergency_remedies(suspected_condition(emergency_result)),
           warning |-> "MEDICAL EMERGENCY DETECTED - Seek immediate professional help!"]}
    ELSE {IF advanced_diagnosis.primary_diagnosis.condition = Str("unknown")
          THEN [type |-> "unknown",
                message |-> advanced_diagnosis.primary_diagnosis.message,
                suggestions |-> advanced_diagnosis.suggestions,
                extracted_symptoms |-> advanced_diagnosis.extracted_symptoms]
          ELSE [type |-> "advanced_diagnosis",
                primary_diagnosis |-> advanced_diagnosis.primary_diagnosis,
                differential_diagnosis |-> advanced_diagnosis.differential_diagnosis,
                extracted_symptoms |-> advanced_diagnosis.extracted_symptoms,
                total_symptoms_analyzed |-> advanced_diagnosis.total_symptoms_analyzed] :
            advanced_diagnosis \in advanced_diagnose(symptom_text)}

-----------------------------------------------------------------------------
(* symptom_checker.py: ComprehensiveSymptomChecker.  A checker is the record *)
(* of its three session fields; a method returns the pairs of the checker    *)
(* it leaves and the dict it returns.                                        *)

\* ComprehensiveSymptomChecker.__init__
NewChecker == [current_symptoms |-> <<>>, answered_questions |-> {}, session_data |-> EmptyDict]

\* get_symptom_checker_questions: its symptom_to_question table (the degree
\* signs of the first question left out)
symptom_to_question == <<
    <<Str("high fever"), "Do you have a high fever (over 101F/38.3C)?">>,
    <<Str("chest pain"), "Are you experiencing any chest pain or discomfort?">>,
    <<Str("breathlessness"), "Do you have difficulty breathing or shortness of breath?">>,
    <<Str("fatigue"), "Are you feeling unusually tired or fatigued?">>,
    <<Str("headache"), "Do you have a headache?">>,
    <<Str("nausea"), "Are you feeling nauseous or sick to your stomach?">>,
    <<Str("vomiting"), "Have you been vomiting?">>,
    <<Str("diarrhea"), "Do you have diarrhea or loose stools?">>,
    <<Str("joint pain"), "Are you experiencing any joint pain?">>,
    <<Str("muscle pain"), "Do you have muscle aches or pain?">>,
    <<Str("skin rash"), "Do you have any skin rash or skin changes?">>,
    <<Str("weight loss"), "Have you experienced unexplained weight loss?">>,
    <<Str("loss of appetite"), "Have you lost your appetite?">>,
    <<Str("sweating"), "Are you experiencing excessive sweating?">>,
    <<Str("dizziness"), "Do you feel dizzy or lightheaded?">> >>

\* the questions of a list of missing symptoms, in its order
QuestionsOf(missing) ==
    LET asked == SelectSeq(missing, LAMBDA symptom : DictHas(symptom_to_question, symptom))
    IN  [i \in 1..Len(asked) |-> DictGet(symptom_to_question, asked[i], None)]

\* get_symptom_checker_questions: the question lists it can return, one per
\* order in which list(missing_symptoms)[:5] can come
get_symptom_checker_questions(symptoms, suspected_disease) ==
    IF ~DictHas(disease_symptoms, suspected_disease) THEN {<<>>}
    ELSE {QuestionsOf(missing) :
            missing \in UNION {Orderings(five) :
                five \in FirstFive(ToSet(DictGet(disease_symptoms, suspected_disease, <<>>))
                                   \ ToSet(symptoms))}}

\* _generate_smart_questions, the filter: the questions whose index (from 0)
\* is not answered, three at most
FilterQuestions(questions, answered) ==
    LET open == SelectSeq([i \in 1..Len(questions) |-> <<i - 1, questions[i]>>],
                          LAMBDA q : q[1] \notin answered)
    IN  [i \in 1..Min(3, Len(open)) |-> open[i][2]]

\* _generate_smart_questions: the lists it can return
generate_smart_questions(diagnosis_result, answered) ==
    {FilterQuestions(questions, answered) :
        questions \in get_symptom_checker_questions(
                          diagnosis_result.extracted_symptoms,
                          diagnosis_result.primary_diagnosis.condition)}

\* start_symptom_check: the session fields after the reset and the emergency
\* check
StartedSession(initial_symptoms) ==
    [initial_input |-> initial_symptoms, emergency_checked |-> TRUE,
     diagnosis_complete |-> FALSE]

\* start_symptom_check: the <<checker, result>> outcomes it can have.  The
\* checker it starts from does not matter: the three fields are reset first.
start_symptom_check(initial_symptoms) ==
    LET emergency_result == check_emergency(initial_symptoms)
        started(current) == [current_symptoms |-> current,
                             answered_questions |-> {},
                             session_data |-> StartedSession(initial_symptoms)]
        initial(extracted_symptoms, diagnosis_result, follow_up_questions) ==
            [checker |-> started(extracted_symptoms),
             result |-> [type |-> "initial_diagnosis",
                         extracted_symptoms |-> extracted_symptoms,
                         primary_diagnosis |-> diagnosis_result.primary_diagnosis,
                         differential_diagnosis |-> diagnosis_result.differential_diagnosis,
                         follow_up_questions |-> follow_up_questions,
                         confidence_level |-> diagnosis_result.primary_diagnosis.confidence,
                         next_action |-> IF Len(follow_up_questions) > 0
                                         THEN "answer_questions" ELSE "get_treatment"]]
        diagnosed(extracted_symptoms) ==
            UNION {{initial(extracted_symptoms, diagnosis_result, follow_up_questions) :
                      follow_up_questions \in generate_smart_questions(diagnosis_result, {})} :
                   diagnosis_result \in advanced_diagnose(initial_symptoms)}
    IN  IF emergency_result.emergency
        THEN {[checker |-> started(<<>>),
               result |-> [type |-> "emergency",
                           emergency_info |-> emergency_result,
                           immediate_actions |->
                               get_emergency_remedies(suspected_condition(emergency_result)),
                           message |-> "MEDICAL EMERGENCY DETECTED - Seek immediate professional help!"]]}
        ELSE IF extract_symptoms_from_text(initial_symptoms) = {}
        THEN {[checker |-> started(<<>>),
               result |-> [type |-> "clarification_needed",
                           message |-> "I need more specific information about your symptoms.",
                           suggestions |-> get_symptom_suggestions,
                           questions |-> <<"What specific symptoms are you experiencing?",
                                           "Where in your body do you feel discomfort?",
                                           "How long have you had these symptoms?">>]]}
        ELSE UNION {diagnosed(extracted_symptoms) :
                extracted_symptoms \in Orderings(extract_symptoms_from_text(initial_symptoms))}

\* _determine_urgency
determine_urgency(condition, confidence) ==
    IF condition \in {Str("heart attack"), Str("paralysis (brain hemorrhage)"),
                      Str("hepatitis e"), Str("acute liver failure"), Str("pneumonia")}
    THEN "high"
    ELSE IF condition \in {Str("diabetes"), Str("hypertension"), Str("bronchial asthma"),
                           Str("tuberculosis"), Str("hepatitis a"), Str("hepatitis b"),
                           Str("hepatitis c")}
    THEN "medium"
    ELSE IF confidence \in {"very high", "high"} THEN "medium"
    ELSE "low"

\* session_data.get('initial_input', '')
initial_input(data) ==
    IF "initial_input" \in DOMAIN data THEN data.initial_input ELSE <<>>

\* _generate_final_diagnosis.  follow_up_recommendations and
\* when_to_seek_help are left out: they are fixed lists chosen by the
\* condition and the urgency level alone.
generate_final_diagnosis(checker, diagnosis_result) ==
    [type |-> "final_diagnosis",
     primary_diagnosis |-> diagnosis_result.primary_diagnosis,
     differential_diagnosis |-> diagnosis_result.differential_diagnosis,
     treatment_plan |->
        [natural_remedies |-> enhanced_get_remedies(diagnosis_result.primary_diagnosis.condition),
         medical_precautions |-> enhanced_get_precautions(diagnosis_result.primary_diagnosis.condition),
         lifestyle_changes |-> get_lifestyle_recommendations(diagnosis_result.primary_diagnosis.condition),
         dietary_recommendations |-> get_dietary_recommendations(diagnosis_result.primary_diagnosis.condition)],
     urgency_level |-> determine_urgency(diagnosis_result.primary_diagnosis.condition,
                                         diagnosis_result.primary_diagnosis.confidence),
     total_symptoms_analyzed |-> Len(checker.current_symptoms),
     session_summary |->
        [initial_input |-> initial_input(checker.session_data),
         questions_answered |-> Cardinality(checker.answered_questions),
         symptoms_identified |-> checker.current_symptoms]]

\* the answers answer_question takes for yes or no
yes_no_answers == {Str("yes"), Str("y"), Str("yeah"), Str("yep"),
                   Str("no"), Str("n"), Str("nope"), Str("not really")}

\* answer_question, after the answer has been added to the symptoms: the
\* <<checker, result>> outcomes (progress is the number n of the text
\* "n/5 questions answered")
Reanalyzed(checker) ==
    LET outcome(updated_diagnosis, remaining_questions) ==
            [checker |-> checker,
             result |-> IF Len(remaining_questions) = 0
                           \/ Cardinality(checker.answered_questions) >= 5
                        THEN generate_final_diagnosis(checker, updated_diagnosis)
                        ELSE [type |-> "continue_questions",
                              updated_diagnosis |-> updated_diagnosis.primary_diagnosis,
                              remaining_questions |-> remaining_questions,
                              progress |-> Cardinality(checker.answered_questions)]]
    IN  UNION {{outcome(updated_diagnosis, remaining_questions) :
                  remaining_questions \in
                      generate_smart_questions(updated_diagnosis, checker.answered_questions)} :
               updated_diagnosis \in advanced_diagnose(Join(checker.current_symptoms, <<SP>>))}

\* answer_question on a checker: the <<checker, result>> outcomes it can have
answer_question(checker, question_index, answer) ==
    LET answered == checker.answered_questions \cup {question_index}
        extended(additional_symptoms) ==
            [checker EXCEPT !.answered_questions = answered,
                            !.current_symptoms = @ \o additional_symptoms]
    IN  IF Lower(answer) \in yes_no_answers
        THEN Reanalyzed(extended(<<>>))
        ELSE UNION {Reanalyzed(extended(additional_symptoms)) :
                additional_symptoms \in Orderings(extract_symptoms_from_text(answer))}

-----------------------------------------------------------------------------
(* More of Python's str and re, as nlp_processor.py uses them *)

\* str.replace(old, new): the non-overlapping occurrences, left to right
RECURSIVE ReplaceFrom(_, _, _, _)
ReplaceFrom(s, old, new, i) ==
    LET occurrences == {q \in i..Len(s) : StartsAt(s, old, q)}
        q == CHOOSE o \in occurrences : \A o2 \in occurrences : o <= o2
    IN  IF occurrences = {} THEN SubSeq(s, i, Len(s))
        ELSE SubSeq(s, i, q - 1) \o new \o ReplaceFrom(s, old, new, q + Len(old))

Replace(s, old, new) == ReplaceFrom(s, old, new, 1)

\* str.split(): the maximal runs of non-space characters
Split(s) ==
    LET starts == {i \in 1..Len(s) : s[i] # SP /\ (i = 1 \/ s[i - 1] = SP)}
        start(k) == CHOOSE i \in starts : Cardinality({j \in starts : j < i}) = k - 1
        stop(i) == CHOOSE j \in i..Len(s) :
                       /\ \A m \in i..j : s[m] # SP
                       /\ (j = Len(s) \/ s[j + 1] = SP)
    IN  [k \in 1..Cardinality(starts) |-> SubSeq(s, start(k), stop(start(k)))]

Digits == {"0", "1", "2", "3", "4", "5", "6", "7", "8", "9"}

\* the position after the run of characters of class cls that starts at i
RunEnd(s, i, cls) ==
    CHOOSE e \in i..(Len(s) + 1) :
        /\ \A m \in i..(e - 1) : s[m] \in cls
        /\ (e = Len(s) + 1 \/ s[e] \notin cls)

(***************************************************************************)
(* The regular expressions of the module are sequences of elements.  An    *)
(* element is an ordered choice of alternatives (kind "alt") or the lazy   *)
(* group (.*?) (kind "lazy").  An alternative is a literal, optionally     *)
(* preceded by \s+ ("plus"), \s* ("star") or \d+ ("digits") and optionally *)
(* anchored by $.  Matching follows the backtracking order of Python's re: *)
(* alternatives left to right, the lazy group shortest first.              *)
(***************************************************************************)
Lit(chars) == [pre |-> "none", lit |-> chars, eos |-> FALSE]
Ws(pre, chars) == [pre |-> pre, lit |-> chars, eos |-> FALSE]
Eos(pre) == [pre |-> pre, lit |-> <<>>, eos |-> TRUE]
Alt(alts) == [kind |-> "alt", alts |-> alts, cap |-> FALSE]
Cap(alts) == [kind |-> "alt", alts |-> alts, cap |-> TRUE]
Lazy == [kind |-> "lazy"]
Lits(strs) == [i \in 1..Len(strs) |-> Lit(strs[i])]

NoMatch == [ok |-> FALSE]

\* the leftmost position, the first alternative, the shortest group
Smallest(S) == CHOOSE m \in S : \A m2 \in S : m <= m2

\* where alternative a ends when matched at p, or 0
AltEnd(s, p, a) ==
    LET literal_at(q) ==
            LET pre_ok == IF a.pre \in {"plus", "digits"} THEN q > p ELSE TRUE
            IN  IF pre_ok /\ StartsAt(s, a.lit, q) /\ (a.eos => q + Len(a.lit) = Len(s) + 1)
                THEN q + Len(a.lit) ELSE 0
    IN  literal_at(IF a.pre = "none" THEN p
                   ELSE IF a.pre = "digits" THEN RunEnd(s, p, Digits)
                   ELSE RunEnd(s, p, {SP}))

RECURSIVE MatchFrom(_, _, _, _, _), TryAlts(_, _, _, _, _), TryLazy(_, _, _, _, _)
\* match elements i.. of re at position p; groups are the groups captured so far
MatchFrom(s, p, re, i, groups) ==
    IF i > Len(re) THEN [ok |-> TRUE, end |-> p, groups |-> groups]
    ELSE IF re[i].kind = "lazy" THEN TryLazy(s, p, re, i, groups)
    ELSE TryAlts(s, p, re, i, groups)

\* the first alternative, in the order written, with which the rest matches
TryAlts(s, p, re, i, groups) ==
    LET rest(e) == IF e = 0 THEN NoMatch
                   ELSE MatchFrom(s, e, re, i + 1,
                                  IF re[i].cap THEN Append(groups, SubSeq(s, p, e - 1))
                                  ELSE groups)
        r(j) == rest(AltEnd(s, p, re[i].alts[j]))
        first(matching) == IF matching = {} THEN NoMatch ELSE r(Smallest(matching))
    IN  first({j \in 1..Len(re[i].alts) : r(j).ok})

\* the shortest group with which the rest matches
TryLazy(s, p, re, i, groups) ==
    LET r(k) == MatchFrom(s, p + k, re, i + 1, Append(groups, SubSeq(s, p, p + k - 1)))
        first(matching) == IF matching = {} THEN NoMatch ELSE r(Smallest(matching))
    IN  first({k \in 0..(Len(s) + 1 - p) : r(k).ok})

\* whether the expression has a capturing group
HasGroup(re) == \E i \in 1..Len(re) : re[i].kind = "lazy" \/ re[i].cap

\* re.findall(re, s): the group of every match (the whole match when the
\* expression has no group), scanning left to right without overlap
RECURSIVE FindAllFrom(_, _, _)
FindAllFrom(s, re, p) ==
    LET found(q, r) ==
            <<IF HasGroup(re) THEN r.groups[1] ELSE SubSeq(s, q, r.end - 1)>>
            \o FindAllFrom(s, re, IF r.end > q THEN r.end ELSE q + 1)
        at(q) == found(q, MatchFrom(s, q, re, 1, <<>>))
        first(matching) == IF matching = {} THEN <<>> ELSE at(Smallest(matching))
    IN  first({q \in p..(Len(s) + 1) : MatchFrom(s, q, re, 1, <<>>).ok})

FindAll(re, s) == FindAllFrom(s, re, 1)

\* re.search(re, s) finds a match
Search(re, s) == \E p \in 1..(Len(s) + 1) : MatchFrom(s, p, re, 1, <<>>).ok

\* the groups of the match re.search(re, s) returns, the leftmost one
SearchGroups(re, s) ==
    MatchFrom(s, Smallest({p \in 1..(Len(s) + 1) : MatchFrom(s, p, re, 1, <<>>).ok}),
              re, 1, <<>>).groups

-----------------------------------------------------------------------------
(* nlp_processor.py: SymptomNLPProcessor *)

symptom_synonyms == <<
    <<Str("hurt"), Str("pain")>>, <<Str("hurts"), Str("pain")>>,
    <<Str("ache"), Str("pain")>>, <<Str("aches"), Str("pain")>>,
    <<Str("sore"), Str("pain")>>, <<Str("tender"), Str("pain")>>,
    <<Str("throbbing"), Str("pain")>>,
    <<Str("hot"), Str("fever")>>, <<Str("burning up"), Str("fever")>>,
    <<Str("temperature"), Str("fever")>>, <<Str("feverish"), Str("fever")>>,
    <<Str("chills"), Str("fever")>>, <<Str("shivering"), Str("fever")>>,
    <<Str("nausea"), Str("vomiting")>>, <<Str("sick to stomach"), Str("vomiting")>>,
    <<Str("queasy"), Str("vomiting")>>, <<Str("throw up"), Str("vomiting")>>,
    <<Str("upset stomach"), Str("stomach pain")>>,
    <<Str("tummy ache"), Str("stomach pain")>>, <<Str("belly pain"), Str("stomach pain")>>,
    <<Str("stuffy nose"), Str("runny nose")>>, <<Str("congested"), Str("runny nose")>>,
    <<Str("blocked nose"), Str("runny nose")>>, <<Str("sniffles"), Str("runny nose")>>,
    <<Str("wheezing"), Str("difficulty breathing")>>,
    <<Str("short of breath"), Str("difficulty breathing")>>,
    <<Str("rash"), Str("skin rash")>>, <<Str("bumps"), Str("skin rash")>>,
    <<Str("spots"), Str("skin rash")>>, <<Str("red skin"), Str("skin rash")>>,
    <<Str("irritated skin"), Str("itching")>>,
    <<Str("migraine"), Str("headache")>>, <<Str("head pain"), Str("headache")>>,
    <<Str("dizzy"), Str("headache")>>, <<Str("lightheaded"), Str("headache")>>,
    <<Str("scratchy throat"), Str("sore throat")>>,
    <<Str("throat hurts"), Str("sore throat")>>,
    <<Str("swollen throat"), Str("sore throat")>>,
    <<Str("tired"), Str("fatigue")>>, <<Str("exhausted"), Str("fatigue")>>,
    <<Str("weak"), Str("fatigue")>>, <<Str("no energy"), Str("fatigue")>>,
    <<Str("worn out"), Str("fatigue")>> >>

\* _extract_symptoms: "Replace synonyms first", one synonym after the other
\* the replacement loop over symptom_synonyms.items(), entries lo..hi in order
RECURSIVE ReplaceSynonyms(_, _, _)
ReplaceSynonyms(normalized_text, lo, hi) ==
    IF lo > hi THEN normalized_text
    ELSE IF lo = hi
    THEN IF Contains(normalized_text, symptom_synonyms[lo][1])
         THEN Replace(normalized_text, symptom_synonyms[lo][1], symptom_synonyms[lo][2])
         ELSE normalized_text
    ELSE LET mid == (lo + hi) \div 2
             first_half == ReplaceSynonyms(normalized_text, lo, mid)
         IN  IF Len(first_half) = 0 THEN first_half
             ELSE ReplaceSynonyms(first_half, mid + 1, hi)

\* _clean_symptom_text
filler_words == {Str("a"), Str("an"), Str("the"), Str("some"), Str("really"),
                 Str("very"), Str("quite"), Str("pretty"), Str("kind of")}

clean_symptom_text(t) ==
    Join(SelectSeq(Split(t), LAMBDA word : word \notin filler_words), <<SP>>)

\* _map_to_known_symptoms: the symptom_mappings table
symptom_mappings == <<
    <<Str("headache"), Str("headache")>>, <<Str("head pain"), Str("headache")>>,
    <<Str("nauseous"), Str("vomiting")>>, <<Str("sick"), Str("vomiting")>>,
    <<Str("queasy"), Str("vomiting")>>, <<Str("stomach"), Str("stomach pain")>>,
    <<Str("belly"), Str("stomach pain")>>, <<Str("tummy"), Str("stomach pain")>>,
    <<Str("throat"), Str("sore throat")>>, <<Str("nose"), Str("runny nose")>>,
    <<Str("stuffy"), Str("runny nose")>>, <<Str("congested"), Str("runny nose")>>,
    <<Str("temperature"), Str("fever")>>, <<Str("hot"), Str("fever")>>,
    <<Str("chills"), Str("fever")>>, <<Str("shivering"), Str("fever")>>,
    <<Str("ache"), Str("body pain")>>, <<Str("aches"), Str("body pain")>>,
    <<Str("tired"), Str("fatigue")>>, <<Str("exhausted"), Str("fatigue")>>,
    <<Str("weak"), Str("fatigue")>>, <<Str("rash"), Str("skin rash")>>,
    <<Str("itchy"), Str("itching")>>, <<Str("scratchy"), Str("itching")>>,
    <<Str("burning"), Str("burning sensation")>>, <<Str("acid"), Str("acidity")>>,
    <<Str("heartburn"), Str("acidity")>> >>

\* _map_to_known_symptoms: the set of the returned list
map_to_known_symptoms(symptom_text) ==
    LET t == Lower(symptom_text)
        has(w) == Contains(t, w)
    IN  IF DictHas(SYMPTOM_MAP, t) THEN {t}
        ELSE {symptom_mappings[i][2] : i \in {j \in 1..Len(symptom_mappings) :
                                                Contains(t, symptom_mappings[j][1])}}
             \cup (IF has(Str("head")) /\ (has(Str("pain")) \/ has(Str("ache")) \/ has(Str("hurt")))
                   THEN {Str("headache")} ELSE {})
             \cup (IF has(Str("stomach")) /\ (has(Str("pain")) \/ has(Str("hurt")) \/ has(Str("ache")))
                   THEN {Str("stomach pain")} ELSE {})
             \cup (IF has(Str("throat")) /\ (has(Str("pain")) \/ has(Str("sore")) \/ has(Str("hurt")))
                   THEN {Str("sore throat")} ELSE {})
             \cup (IF has(Str("sick")) /\ (has(Str("stomach")) \/ has(Str("nausea")))
                   THEN {Str("vomiting")} ELSE {})

\* _extract_symptoms: the symptom_patterns list
Terminators3 == <<Ws("plus", Str("and")), Ws("star", Str(",")), Eos("star")>>
Terminators5 == Terminators3 \o <<Ws("plus", Str("that")), Ws("plus", Str("which"))>>
Hurts == <<Str("hurts"), Str("hurt")>>
Aches == <<Str("aches"), Str("ache")>>
ReallyVery == <<Str("really "), Str("very "), Str("")>>

symptom_patterns == <<
    << Alt(Lits(<<Str("i have ")>>)),
       Alt(Lits(<<Str("a "), Str("an "), Str("some "), Str("really "), Str("very "),
                  Str("quite "), Str("pretty "), Str("")>>)),
       Alt(Lits(<<Str("bad "), Str("severe "), Str("terrible "), Str("awful "),
                  Str("mild "), Str("slight "), Str("little "), Str("minor "), Str("")>>)),
       Lazy, Alt(Terminators5) >>,
    << Alt(Lits(<<Str("i'm feeling ")>>)), Lazy, Alt(Terminators3) >>,
    << Alt(Lits(<<Str("experiencing ")>>)), Lazy, Alt(Terminators3) >>,
    << Alt(Lits(<<Str("my ")>>)), Lazy, Alt(Lits(<<Str(" ")>>)),
       Alt(Lits(Hurts \o Aches \o <<Str("is sore"), Str("feels bad"), Str("feel bad"),
                  Str("feels terrible"), Str("feel terrible"),
                  Str("really hurts"), Str("really hurt")>>)) >>,
    << Cap(Lits(<<Str("headache"), Str("fever"), Str("nausea"), Str("vomiting"),
                  Str("cough"), Str("pain"), Str("ache"), Str("sick"), Str("hurt"),
                  Str("hurts")>>)) >>,
    << Alt(Lits(<<Str("feeling ")>>)),
       Cap(Lits(<<Str("nauseous"), Str("sick"), Str("dizzy"), Str("tired"), Str("weak"),
                  Str("feverish")>>)) >>,
    << Cap(Lits(<<Str("itching"), Str("burning"), Str("throbbing"), Str("sharp"),
                  Str("dull")>>)),
       Alt(Lits(<<Str(" ")>>)),
       Alt(Lits(<<Str("pain"), Str("sensation"), Str("feeling")>>)) >>,
    << Alt(Lits(<<Str("really "), Str("very "), Str("quite "), Str("")>>)),
       Cap(Lits(<<Str("sick"), Str("nauseous"), Str("hurt"), Str("pain"), Str("ache"),
                  Str("fever"), Str("headache"), Str("cough")>>)) >>,
    << Alt(Lits(<<Str("stomach ")>>)), Alt(Lits(ReallyVery)),
       Alt(Lits(Hurts \o Aches \o <<Str("pain")>>)) >>,
    << Alt(Lits(<<Str("feel ")>>)), Alt(Lits(ReallyVery)), Alt(Lits(<<Str("sick")>>)) >> >>

\* _extract_symptoms, "Enhanced symptom extraction patterns": what the
\* matches of all patterns map to
pattern_symptoms(normalized_text) ==
    UNION {map_to_known_symptoms(clean_symptom_text(Strip(m))) :
            m \in {mm \in UNION {ToSet(FindAll(symptom_patterns[i], normalized_text)) :
                                   i \in 1..Len(symptom_patterns)} :
                     /\ Len(clean_symptom_text(Strip(mm))) > 0
                     /\ Len(Split(clean_symptom_text(Strip(mm)))) <= 4}}

\* _extract_symptoms, "try more aggressive extraction": the whole input is a
\* symptom, or its single word is a word of one (the first in table order)
aggressive_symptoms(normalized_text) ==
    LET cleaned_input == Lower(Strip(normalized_text))
        words == Split(cleaned_input)
        partial == {i \in 1..Len(SYMPTOM_MAP) : words[1] \in ToSet(Split(SYMPTOM_MAP[i][1]))}
    IN  IF DictHas(SYMPTOM_MAP, cleaned_input) THEN {cleaned_input}
        ELSE IF Len(words) = 1 /\ partial # {}
             THEN {SYMPTOM_MAP[CHOOSE i \in partial : \A j \in partial : i <= j][1]}
             ELSE {}

\* _extract_symptoms, "Special case handling for complex phrases"
special_case_symptoms(normalized_text) ==
    LET has(w) == Contains(normalized_text, w) IN
    (IF has(Str("stomach")) /\ (has(Str("hurt")) \/ has(Str("pain"))) THEN {Str("stomach pain")} ELSE {})
    \cup (IF has(Str("sick")) /\ has(Str("stomach")) THEN {Str("vomiting")} ELSE {})
    \cup (IF has(Str("head")) /\ (has(Str("hurt")) \/ has(Str("pain"))) THEN {Str("headache")} ELSE {})

\* _extract_symptoms: the set behind the returned list(set(symptoms))
extract_symptoms(t) ==
    LET normalized_text == ReplaceSynonyms(t, 1, Len(symptom_synonyms))
        direct == {SYMPTOM_MAP[i][1] : i \in {j \in 1..Len(SYMPTOM_MAP) :
                                                Contains(normalized_text, SYMPTOM_MAP[j][1])}}
        second == IF direct # {} THEN direct ELSE aggressive_symptoms(normalized_text)
        third  == IF second # {} THEN second ELSE pattern_symptoms(normalized_text)
    IN  third \cup special_case_symptoms(normalized_text)

\* _is_greeting
greetings == <<Str("hello"), Str("hi"), Str("hey"), Str("good morning"),
               Str("good afternoon"), Str("good evening")>>

emergency_keywords == <<Str("chest pain"), Str("difficulty breathing"),
                        Str("severe bleeding"), Str("unconscious"), Str("seizure")>>

is_greeting(t) ==
    IF \E i \in 1..Len(emergency_keywords) : Contains(t, emergency_keywords[i])
    THEN FALSE
    ELSE \E i \in 1..Len(greetings) : Contains(t, greetings[i])

\* _is_question_about_system
system_questions == <<Str("what can you do"), Str("how do you work"), Str("what are you"),
                      Str("help me"), Str("what is this"), Str("how does this work")>>

is_question_about_system(t) ==
    \E i \in 1..Len(system_questions) : Contains(t, system_questions[i])

\* intensity_modifiers, in the order of the dict
intensity_modifiers == <<
    <<Str("severe"), 3>>, <<Str("extreme"), 3>>, <<Str("terrible"), 3>>, <<Str("awful"), 3>>,
    <<Str("bad"), 2>>, <<Str("strong"), 2>>, <<Str("intense"), 2>>, <<Str("sharp"), 2>>,
    <<Str("mild"), 1>>, <<Str("slight"), 1>>, <<Str("little"), 1>>, <<Str("minor"), 1>> >>

\* _extract_intensity: the level of the first modifier found
extract_intensity(t) ==
    LET found == {i \in 1..Len(intensity_modifiers) : Contains(t, intensity_modifiers[i][1])}
        level == intensity_modifiers[CHOOSE i \in found : \A j \in found : i <= j][2]
    IN  IF found = {} THEN "moderate"
        ELSE IF level = 3 THEN "severe"
        ELSE IF level = 2 THEN "moderate"
        ELSE "mild"

\* duration_patterns, in the order of the dict; "days?" is day or days
duration_patterns == <<
    <<<<Alt(<<Lit(Str("for "))>>), Cap(<<Ws("digits", <<>>)>>),
        Alt(<<Lit(Str(" days")), Lit(Str(" day"))>>)>>, "chronic">>,
    <<<<Cap(<<Ws("digits", <<>>)>>),
        Alt(<<Lit(Str(" days")), Lit(Str(" day"))>>), Alt(<<Lit(Str(" ago"))>>)>>, "recent">>,
    <<<<Alt(<<Lit(Str("all week"))>>)>>, "chronic">>,
    <<<<Alt(<<Lit(Str("since yesterday"))>>)>>, "recent">>,
    <<<<Alt(<<Lit(Str("just started"))>>)>>, "acute">>,
    <<<<Alt(<<Lit(Str("suddenly"))>>)>>, "acute">>,
    <<<<Alt(<<Lit(Str("gradually"))>>)>>, "chronic">> >>

\* _extract_duration: the type of the first pattern found
extract_duration(t) ==
    LET found == {i \in 1..Len(duration_patterns) : Search(duration_patterns[i][1], t)}
    IN  IF found = {} THEN "unknown"
        ELSE duration_patterns[CHOOSE i \in found : \A j \in found : i <= j][2]

\* _get_symptom_suggestions of the processor
nlp_symptom_suggestions == <<
    "fever or high temperature", "headache or head pain", "cough or throat problems",
    "stomach pain or nausea", "body aches or joint pain", "skin rash or itching",
    "difficulty breathing", "runny or stuffy nose">>

\* process_natural_language: one result per order of list(set(symptoms))
process_natural_language(user_text) ==
    LET t == Strip(Lower(user_text)) IN
    IF is_greeting(t) THEN {[type |-> "greeting"]}
    ELSE IF is_question_about_system(t) THEN {[type |-> "system_info"]}
    ELSE LET found == extract_symptoms(t) IN
         IF found = {}
         THEN {[type |-> "clarification_needed", suggestions |-> nlp_symptom_suggestions]}
         ELSE {[type |-> "symptoms_found",
                symptoms |-> extracted_symptoms,
                intensity |-> extract_intensity(t),
                duration |-> extract_duration(t),
                normalized_text |-> Join(extracted_symptoms, <<SP>>)] :
                 extracted_symptoms \in Orderings(found)}

\* generate_conversational_response: which of its three texts it builds, and
\* for the third the condition and confidence it names
generate_conversational_response(diagnosis_result) ==
    IF diagnosis_result.emergency.emergency
    THEN [kind |-> "urgent_medical_attention"]
    ELSE IF diagnosis_result.diagnosis.condition = Str("unknown")
    THEN [kind |-> "need_more_information"]
    ELSE [kind |-> "analysis",
          condition |-> diagnosis_result.diagnosis.condition,
          confidence |-> diagnosis_result.diagnosis.confidence,
          remedies |-> diagnosis_result.remedies,
          precautions |-> diagnosis_result.precautions]

\* ai_engine/__init__.py analyze_symptoms_conversational
analyze_symptoms_conversational(user_input) ==
    UNION {
        IF nlp_result.type \in {"greeting", "system_info", "clarification_needed"}
        THEN {[type |-> nlp_result.type,
               suggestions |-> IF nlp_result.type = "clarification_needed"
                               THEN nlp_result.suggestions ELSE <<>>]}
        ELSE {[type |-> "medical_analysis",
               response |-> generate_conversational_response(diagnosis_result),
               diagnosis_result |-> diagnosis_result,
               extracted_symptoms |-> nlp_result.symptoms,
               intensity |-> nlp_result.intensity,
               duration |-> nlp_result.duration] :
               diagnosis_result \in analyze_symptoms(nlp_result.normalized_text)}
        : nlp_result \in process_natural_language(user_input)}

-----------------------------------------------------------------------------
(* chatgpt_interface.py: MedicalChatBot.  A reply is modelled by the text   *)
(* it is built from: `kind` names the template, the other fields the values *)
(* put into it.                                                             *)

\* int(number) of a string of digits
DigitValue(c) == CHOOSE d \in 0..9 : <<"0", "1", "2", "3", "4", "5", "6", "7", "8", "9">>[d + 1] = c

RECURSIVE ParseInt(_)
ParseInt(digits) ==
    IF Len(digits) = 0 THEN 0
    ELSE 10 * ParseInt(SubSeq(digits, 1, Len(digits) - 1)) + DigitValue(digits[Len(digits)])

duration_units == <<Str("day"), Str("days"), Str("week"), Str("weeks"),
                    Str("month"), Str("months")>>

\* the expression _handle_duration_response searches for
number_unit_pattern ==
    <<Cap(<<Ws("digits", <<>>)>>), Alt(<<Ws("star", <<>>)>>), Cap(Lits(duration_units))>>

\* duration_patterns of _handle_follow_up_context
follow_up_duration_patterns == <<
    number_unit_pattern,
    <<Cap(Lits(<<Str("few"), Str("several"), Str("many")>>)), Alt(<<Ws("star", <<>>)>>),
      Cap(Lits(duration_units))>>,
    <<Alt(<<Lit(Str("since"))>>),
      Cap(<<Ws("plus", Str("yesterday")), Ws("plus", Str("last week")),
            Ws("plus", Str("last month"))>>)>>,
    <<Alt(<<Lit(Str("for"))>>),
      Cap(<<Ws("plus", Str("a while")), Ws("plus", Str("long time")),
            Ws("plus", Str("some time"))>>)>> >>

\* _handle_duration_response
handle_duration_response(user_input) ==
    LET t == Lower(user_input) IN
    IF Search(number_unit_pattern, t)
    THEN LET duration_match == SearchGroups(number_unit_pattern, t)
             number == duration_match[1]
             unit == duration_match[2]
         IN  IF Contains(unit, Str("week")) /\ ParseInt(number) >= 2
             THEN [kind |-> "duration_long_time", number |-> number, unit |-> unit]
             ELSE IF Contains(unit, Str("day")) /\ ParseInt(number) >= 7
             THEN [kind |-> "duration_needs_attention", number |-> number, unit |-> unit]
             ELSE [kind |-> "duration_noted", number |-> number, unit |-> unit]
    ELSE [kind |-> "additional_information"]

\* _handle_yes_no_response
handle_yes_no_response(user_input) ==
    IF Strip(Lower(user_input)) \in {Str("yes"), Str("yeah"), Str("yep")}
    THEN [kind |-> "thank_you_for_confirming"]
    ELSE [kind |-> "without_additional_exposure"]

\* _handle_exposure_response
handle_exposure_response(user_input) == [kind |-> "potential_exposure"]

exposure_words == <<Str("around"), Str("contact"), Str("exposed"), Str("family"),
                    Str("work"), Str("school")>>

\* whether a reply contains the text "Follow-up questions:"
HasFollowUpQuestions(content) ==
    content.kind = "simple_analysis" /\ content.follow_up = "follow_up_questions"

\* the first assistant message of a history, None when there is none
FirstAssistantMessage(history) ==
    LET assistant == {i \in 1..Len(history) : history[i].role = "assistant"}
    IN  IF assistant = {} THEN None
        ELSE history[CHOOSE i \in assistant : \A j \in assistant : i <= j].content

\* the last assistant message of a history, None when there is none
LastAssistantMessage(history) ==
    LET assistant == {i \in 1..Len(history) : history[i].role = "assistant"}
    IN  IF assistant = {} THEN None
        ELSE history[CHOOSE i \in assistant : \A j \in assistant : j <= i].content

\* _handle_follow_up_context, on the history that already holds user_input:
\* the reply, or None
handle_follow_up_context(history, user_input) ==
    LET last_assistant_message == LastAssistantMessage(history)
        t == Lower(user_input)
    IN  IF Len(history) < 1 THEN None
        ELSE IF last_assistant_message # None /\ HasFollowUpQuestions(last_assistant_message)
        THEN IF \E i \in 1..Len(follow_up_duration_patterns) :
                    Search(follow_up_duration_patterns[i], t)
             THEN handle_duration_response(user_input)
             ELSE IF Strip(t) \in {Str("yes"), Str("yeah"), Str("yep"), Str("no"),
                                   Str("nope"), Str("not really")}
             THEN handle_yes_no_response(user_input)
             ELSE IF \E i \in 1..Len(exposure_words) : Contains(t, exposure_words[i])
             THEN handle_exposure_response(user_input)
             ELSE None
        ELSE None

\* follow_ups of _generate_follow_up_questions
follow_ups == {Str("viral infection"), Str("common cold"), Str("allergy"),
               Str("gastric issue"), Str("throat infection")}

\* _generate_follow_up_questions: which of its two texts it returns
generate_follow_up_questions(diagnosis_result) ==
    IF diagnosis_result.diagnosis.condition \in follow_ups
    THEN "follow_up_questions" ELSE "anything_else"

\* _handle_simple_analysis: the reply and the diagnosis it stores
handle_simple_analysis(symptoms_text) ==
    {[last_diagnosis |-> diagnosis_result,
      response |-> [kind |-> "simple_analysis",
                    text |-> generate_conversational_response(diagnosis_result),
                    follow_up |-> IF diagnosis_result.emergency.emergency THEN "none"
                                  ELSE generate_follow_up_questions(diagnosis_result)]] :
        diagnosis_result \in analyze_symptoms(symptoms_text)}

\* _handle_advanced_analysis: the reply
handle_advanced_analysis(symptoms_text) ==
    {IF advanced_result.type = "emergency"
     THEN [kind |-> "medical_emergency_detected",
           condition |-> IF "suspected_condition" \in DOMAIN advanced_result.emergency
                         THEN advanced_result.emergency.suspected_condition
                         ELSE Str("Critical"),
           urgency |-> advanced_result.emergency.level,
           action_required |-> advanced_result.emergency.message,
           emergency_remedies |-> advanced_result.emergency_remedies]
     ELSE IF advanced_result.type = "unknown"
     THEN [kind |-> "analysis_result",
           message |-> advanced_result.message,
           extracted_symptoms |-> advanced_result.extracted_symptoms,
           suggestions |-> advanced_result.suggestions]
     ELSE [kind |-> "advanced_medical_analysis",
           primary_diagnosis |-> advanced_result.primary_diagnosis,
           differential_diagnosis |-> advanced_result.differential_diagnosis,
           total_symptoms_analyzed |-> advanced_result.total_symptoms_analyzed] :
        advanced_result \in advanced_analyze_symptoms(symptoms_text)}

\* a transcript that records no reply
DropResponse(history, response) == history

\* self.conversation_history.append({"role": "assistant", "content": response})
StoreResponse(history, response) ==
    Append(history, [role |-> "assistant", content |-> response])

\* process_user_input: every outcome, as the reply and the fields of the bot
\* after it; every branch that returns stores its reply in the history, which
\* already holds user_input
process_user_input(user_input) ==
    LET history == Append(conversation_history, [role |-> "user", content |-> user_input])
        command == Strip(Lower(user_input))
        replying(response) == [conversation_history |-> StoreResponse(history, response),
                               advanced_mode |-> advanced_mode,
                               last_diagnosis |-> last_diagnosis,
                               current_symptoms |-> current_symptoms,
                               response |-> response]
        follow_up == handle_follow_up_context(history, user_input)
    IN  IF command \in {Str("advanced"), Str("advanced mode"), Str("detailed analysis")}
        THEN {[replying([kind |-> "advanced_mode_activated"]) EXCEPT !.advanced_mode = TRUE]}
        ELSE IF command \in {Str("simple"), Str("simple mode"), Str("basic")}
        THEN {[replying([kind |-> "simple_mode_activated"]) EXCEPT !.advanced_mode = FALSE]}
        ELSE IF follow_up # None
        THEN {replying(follow_up)}
        ELSE UNION {
            IF nlp_result.type = "greeting"
            THEN {replying([kind |-> "greeting"])}
            ELSE IF nlp_result.type = "system_info"
            THEN {replying([kind |-> "system_info"])}
            ELSE IF nlp_result.type = "clarification_needed"
            THEN {replying([kind |-> "clarification_needed",
                            suggestions |-> nlp_result.suggestions])}
            ELSE IF advanced_mode
            THEN {[replying(response) EXCEPT !.current_symptoms = nlp_result.symptoms] :
                    response \in handle_advanced_analysis(nlp_result.normalized_text)}
            ELSE {[replying(simple.response) EXCEPT
                        !.current_symptoms = nlp_result.symptoms,
                        !.last_diagnosis = simple.last_diagnosis] :
                    simple \in handle_simple_analysis(nlp_result.normalized_text)}
            : nlp_result \in process_natural_language(user_input)}

-----------------------------------------------------------------------------
(* The texts a run is given *)

MaxWords == 2

Vocabulary == {
    Str("fever"), Str("high fever"), Str("Chest Pain"), Str("no"),
    Str("hi"), Str("headache"), Str("sore throat"), Str("scratchy throat"),
    Str("hot"), Str("seizure"), Str("xyzzy"), Str("fever and body pain"),
    Str("my stomach hurts") }

\* every phrase sequence of at most MaxWords phrases, joined by single spaces
Texts ==
    {Join(ws, <<SP>>) : ws \in UNION {[1..k -> Vocabulary] : k \in 0..MaxWords}}

\* the turns of a conversation with the chatbot
MaxTurns == 3

\* what the user may type in a turn
ChatTexts == {
    Str("advanced"), Str("simple"), Str("hi"), Str("what are you"), Str("xyzzy"),
    Str("fever"), Str("headache"), Str("chest pain"), Str("seizure at work"),
    Str("2 weeks"), Str("7 days"), Str("3 days"), Str("few days"),
    Str("since yesterday"), Str("for a while"), Str("yes"), Str("no") }

-----------------------------------------------------------------------------
(* The state machine *)

\* The sessions that call the entry points
Sessions == {1, 2}

\* the module-level comprehensive_symptom_checker as constructed, and the
\* checker each session would have to itself
\* the browsers that talk to the web shell and the threads that serve them
Browsers == {1, 2}
Threads == {1, 2}

\* a browser without a session cookie
NoCookie == 0

\* a session_id no chatbot was made for: the chatbots made for an id since
\* it was last deleted from chatbot_sessions, and the chatbots that answered
\* a request of it
NotServed == [created |-> {}, answered |-> {}]

\* a thread that serves no request
Idle == [pc |-> "idle"]

\* web_interface as imported: no chatbot, no request
WebInit ==
    /\ chatbot_sessions = EmptyDict
    /\ chatbots = <<>>
    /\ cookie = [b \in Browsers |-> NoCookie]
    /\ requests = [t \in Threads |-> Idle]
    /\ served = <<>>

CheckerInit ==
    /\ checker_symptoms = NewChecker.current_symptoms
    /\ answered_questions = NewChecker.answered_questions
    /\ session_data = NewChecker.session_data
    /\ alone = [s \in Sessions |-> NewChecker]
    /\ calls = 0

Init ==
    /\ \E sf \in SymptomsFiles :
        /\ SYMPTOM_MAP = load_symptom_map(sf).value
        /\ symptom_map = load_medical_data(sf)[1]
        /\ disease_symptoms = load_medical_data(sf)[2]
        /\ symptom_weights = calculate_symptom_weights(load_medical_data(sf)[2])
    /\ \E rf \in RemediesFiles :
        /\ EMERGENCY_SYMPTOMS = load_emergency_symptoms(rf).value
        /\ REMEDY_DB = load_remedy_database(rf).value[1]
        /\ PRECAUTIONS_DB = load_remedy_database(rf).value[2]
        /\ remedy_database = EnhancedRemedySystem(rf)[1]
        /\ precautions_database = EnhancedRemedySystem(rf)[2]
    /\ CheckerInit
    /\ WebInit
    /\ conversation_history = <<>>
    /\ advanced_mode = FALSE
    /\ last_diagnosis = None
    /\ current_symptoms = <<>>
    /\ text \in Texts
    /\ call = "none"
    /\ result = None

Bot == <<conversation_history, advanced_mode, last_diagnosis, current_symptoms>>

Tables == <<SYMPTOM_MAP, EMERGENCY_SYMPTOMS, REMEDY_DB, PRECAUTIONS_DB,
            symptom_map, disease_symptoms, symptom_weights,
            remedy_database, precautions_database>>

Checker == <<checker_symptoms, answered_questions, session_data, alone, calls>>

CheckEmergency ==
    /\ call = "none"
    /\ call' = "check_emergency"
    /\ result' = check_emergency(text)
    /\ UNCHANGED <<Web, Tables, Bot, Checker, text>>

Diagnose ==
    /\ call = "none"
    /\ call' = "diagnose"
    /\ result' \in diagnose(text)
    /\ UNCHANGED <<Web, Tables, Bot, Checker, text>>

AnalyzeSymptoms ==
    /\ call = "none"
    /\ call' = "analyze_symptoms"
    /\ result' \in analyze_symptoms(text)
    /\ UNCHANGED <<Web, Tables, Bot, Checker, text>>

ExtractSymptomsFromText ==
    /\ call = "none"
    /\ call' = "extract_symptoms_from_text"
    /\ result' \in Orderings(extract_symptoms_from_text(text))
    /\ UNCHANGED <<Web, Tables, Bot, Checker, text>>

AdvancedDiagnose ==
    /\ call = "none"
    /\ call' = "advanced_diagnose"
    /\ result' \in advanced_diagnose(text)
    /\ UNCHANGED <<Web, Tables, Bot, Checker, text>>

AdvancedAnalyzeSymptoms ==
    /\ call = "none"
    /\ call' = "advanced_analyze_symptoms"
    /\ result' \in advanced_analyze_symptoms(text)
    /\ UNCHANGED <<Web, Tables, Bot, Checker, text>>

NlpExtractSymptoms ==
    /\ call = "none"
    /\ call' = "nlp_extract"
    /\ result' \in Orderings(extract_symptoms(text))
    /\ UNCHANGED <<Web, Tables, Bot, Checker, text>>

ProcessNaturalLanguage ==
    /\ call = "none"
    /\ call' = "process_natural_language"
    /\ result' \in process_natural_language(text)
    /\ UNCHANGED <<Web, Tables, Bot, Checker, text>>

AnalyzeSymptomsConversational ==
    /\ call = "none"
    /\ call' = "analyze_symptoms_conversational"
    /\ result' \in analyze_symptoms_conversational(text)
    /\ UNCHANGED <<Web, Tables, Bot, Checker, text>>

\* the extractor of the engine applied to ' '.join(symptoms) of its own output
ReExtractSymptomsFromText ==
    /\ call = "extract_symptoms_from_text"
    /\ call' = "extract_symptoms_from_text_again"
    /\ text' = Join(result, <<SP>>)
    /\ result' \in {[symptoms |-> result, again |-> again] :
                      again \in Orderings(extract_symptoms_from_text(Join(result, <<SP>>)))}
    /\ UNCHANGED <<Web, Tables, Bot, Checker>>

\* the extractor of the processor applied to ' '.join(symptoms) of its own output
NlpReExtractSymptoms ==
    /\ call = "nlp_extract"
    /\ call' = "nlp_extract_again"
    /\ text' = Join(result, <<SP>>)
    /\ result' \in {[symptoms |-> result, again |-> again] :
                      again \in Orderings(extract_symptoms(Join(result, <<SP>>)))}
    /\ UNCHANGED <<Web, Tables, Bot, Checker>>

\* one turn of a conversation: MedicalChatBot.process_user_input(user_input)
ProcessUserInput ==
    /\ call \in {"none", "process_user_input"}
    /\ Len(conversation_history) < 2 * MaxTurns
    /\ \E user_input \in ChatTexts :
        \E outcome \in process_user_input(user_input) :
            /\ text' = user_input
            /\ call' = "process_user_input"
            /\ result' = outcome.response
            /\ conversation_history' = outcome.conversation_history
            /\ advanced_mode' = outcome.advanced_mode
            /\ last_diagnosis' = outcome.last_diagnosis
            /\ current_symptoms' = outcome.current_symptoms
    /\ UNCHANGED <<Web, Tables, Checker>>

\* the number of entry-point calls of a run
MaxCalls == 3

\* the module-level comprehensive_symptom_checker
TheChecker ==
    [current_symptoms |-> checker_symptoms,
     answered_questions |-> answered_questions,
     session_data |-> session_data]

\* the outcome of a method call on the module-level checker, seen by session
\* s; possible is what the call can do on the checker s would have alone.
\* That checker follows the same outcome when it is one of them.
CheckerCall(s, outcome, possible) ==
    /\ checker_symptoms' = outcome.checker.current_symptoms
    /\ answered_questions' = outcome.checker.answered_questions
    /\ session_data' = outcome.checker.session_data
    /\ result' = [session |-> s, observed |-> outcome, alone |-> possible]
    /\ alone' = [alone EXCEPT ![s] =
                    IF outcome \in possible THEN outcome.checker
                    ELSE (CHOOSE o \in possible : TRUE).checker]

\* comprehensive_symptom_check(symptom_text) by session s
StartSymptomCheckBy(s, symptom_text) ==
    /\ calls < MaxCalls
    /\ calls' = calls + 1
    /\ call' = "start_symptom_check"
    /\ text' = symptom_text
    /\ LET any(possible) == \E outcome \in possible : CheckerCall(s, outcome, possible)
       IN  any(start_symptom_check(symptom_text))
    /\ UNCHANGED <<Web, Tables, Bot>>

\* comprehensive_symptom_check(text), the first call of a run
StartSymptomCheck ==
    /\ call = "none"
    /\ StartSymptomCheckBy(1, text)

Next ==
    \/ NlpExtractSymptoms
    \/ NlpReExtractSymptoms
    \/ ReExtractSymptomsFromText
    \/ ProcessUserInput
    \/ ProcessNaturalLanguage
    \/ AnalyzeSymptomsConversational
    \/ CheckEmergency
    \/ Diagnose
    \/ AnalyzeSymptoms
    \/ ExtractSymptomsFromText
    \/ AdvancedDiagnose
    \/ AdvancedAnalyzeSymptoms
    \/ StartSymptomCheck

Spec == Init /\ [][Next]_vars

-----------------------------------------------------------------------------
(* The scorer on its own: calculate_disease_probability over the lexicons   *)
(* a data/symptoms.json can hold on a small universe, and every symptom     *)
(* list up to MaxSymptoms entries, repeated and unknown entries included.   *)

MaxSymptoms == 2

ScoreSymptoms == <<Str("fever"), Str("cough"), Str("itching")>>
ScoreDiseases == <<Str("malaria"), Str("flu")>>

\* what symptom_map may hold for a symptom: no entry (<<>>), a disease with a
\* profile, a disease without one
PrimaryChoices == {<<>>, Str("malaria"), Str("common cold")}

\* the dict whose keys are the entries of keys with a chosen value
DictOf(keys, choice) ==
    LET kept == SelectSeq([i \in 1..Len(keys) |-> <<keys[i], choice[i]>>],
                          LAMBDA kv : kv[2] # <<>>)
    IN  kept

\* the list of the symptoms of ScoreSymptoms whose index is in S, in order
ProfileOf(S) ==
    LET pairs == SelectSeq([i \in 1..Len(ScoreSymptoms) |-> <<i, ScoreSymptoms[i]>>],
                           LAMBDA p : p[1] \in S)
    IN  [i \in 1..Len(pairs) |-> pairs[i][2]]

ScoreFiles ==
    {[state |-> "ok",
      symptom_map |-> DictOf(ScoreSymptoms, primary),
      disease_symptoms |-> [d \in 1..Len(ScoreDiseases) |->
                                <<ScoreDiseases[d], ProfileOf(profile[d])>>]] :
        primary \in [1..Len(ScoreSymptoms) -> PrimaryChoices],
        profile \in [1..Len(ScoreDiseases) -> SUBSET (1..Len(ScoreSymptoms))]}

SymptomLists ==
    UNION {[1..k -> ToSet(ScoreSymptoms) \cup {Str("xyzzy")}] : k \in 0..MaxSymptoms}

InitScore ==
    /\ \E sf \in ScoreFiles :
        /\ SYMPTOM_MAP = load_symptom_map(sf).value
        /\ symptom_map = load_medical_data(sf)[1]
        /\ disease_symptoms = load_medical_data(sf)[2]
        /\ symptom_weights = calculate_symptom_weights(load_medical_data(sf)[2])
    /\ EMERGENCY_SYMPTOMS = load_emergency_symptoms(MissingFile).value
    /\ REMEDY_DB = load_remedy_database(MissingFile).value[1]
    /\ PRECAUTIONS_DB = load_remedy_database(MissingFile).value[2]
    /\ remedy_database = EnhancedRemedySystem(MissingFile)[1]
    /\ precautions_database = EnhancedRemedySystem(MissingFile)[2]
    /\ CheckerInit
    /\ WebInit
    /\ conversation_history = <<>>
    /\ advanced_mode = FALSE
    /\ last_diagnosis = None
    /\ current_symptoms = <<>>
    /\ text = <<>>
    /\ call = "none"
    /\ result = None

CalculateDiseaseProbability ==
    /\ call = "none"
    /\ call' = "calculate_disease_probability"
    /\ \E symptoms \in SymptomLists :
        result' = [symptoms |-> symptoms,
                   accumulated |-> disease_scores(symptoms),
                   outcome |-> calculate_disease_probability(symptoms)]
    /\ UNCHANGED <<Web, Tables, Bot, Checker, text>>

\* get_differential_diagnosis(symptoms, top_n)
GetDifferentialDiagnosis ==
    /\ call = "none"
    /\ call' = "get_differential_diagnosis"
    /\ \E symptoms \in SymptomLists, top_n \in 1..DefaultTopN :
        \E candidates \in get_differential_diagnosis(symptoms, top_n) :
            result' = [symptoms |-> symptoms,
                       top_n |-> top_n,
                       scores |-> calculate_disease_probability(symptoms).scores,
                       candidates |-> candidates]
    /\ UNCHANGED <<Web, Tables, Bot, Checker, text>>

\* advanced_diagnose from the point where the extractor has returned its
\* list (a list(set(..)), so without repeated entries)
AdvancedDiagnoseSymptoms ==
    /\ call = "none"
    /\ call' = "advanced_diagnose_symptoms"
    /\ \E symptoms \in {l \in SymptomLists : \A i, j \in 1..Len(l) : l[i] = l[j] => i = j} :
        \E diagnosis \in AdvancedDiagnoseList(symptoms) :
            result' = [symptoms |-> symptoms, diagnosis |-> diagnosis]
    /\ UNCHANGED <<Web, Tables, Bot, Checker, text>>

NextScore ==
    \/ CalculateDiseaseProbability
    \/ GetDifferentialDiagnosis
    \/ AdvancedDiagnoseSymptoms

SpecScore == InitScore /\ [][NextScore]_vars

-----------------------------------------------------------------------------
(* The threshold table on its own: get_confidence_level over the scores     *)
(* k / ScoreSteps of [0,1] and the symptom counts up to MaxCount.           *)

ScoreSteps == 20
MaxCount == 4

InitConf ==
    /\ SYMPTOM_MAP = load_symptom_map(MissingFile).value
    /\ symptom_map = load_medical_data(MissingFile)[1]
    /\ disease_symptoms = load_medical_data(MissingFile)[2]
    /\ symptom_weights = calculate_symptom_weights(load_medical_data(MissingFile)[2])
    /\ EMERGENCY_SYMPTOMS = load_emergency_symptoms(MissingFile).value
    /\ REMEDY_DB = load_remedy_database(MissingFile).value[1]
    /\ PRECAUTIONS_DB = load_remedy_database(MissingFile).value[2]
    /\ remedy_database = EnhancedRemedySystem(MissingFile)[1]
    /\ precautions_database = EnhancedRemedySystem(MissingFile)[2]
    /\ CheckerInit
    /\ WebInit
    /\ conversation_history = <<>>
    /\ advanced_mode = FALSE
    /\ last_diagnosis = None
    /\ current_symptoms = <<>>
    /\ text = <<>>
    /\ call = "none"
    /\ result = None

GetConfidenceLevel ==
    /\ call = "none"
    /\ call' = "get_confidence_level"
    /\ \E k \in 0..ScoreSteps, symptom_count \in 0..MaxCount :
        result' = [top_score |-> Rat(k, ScoreSteps),
                   symptom_count |-> symptom_count,
                   confidence |-> get_confidence_level(Rat(k, ScoreSteps), symptom_count)]
    /\ UNCHANGED <<Web, Tables, Bot, Checker, text>>

NextConf == GetConfidenceLevel

SpecConf == InitConf /\ [][NextConf]_vars

-----------------------------------------------------------------------------
(* The loaders on their own: each one reads a data file in any of its       *)
(* states.  A JSON object holds any subset of the expected keys, each with  *)
(* an empty table or the table update_dataset.py writes.                    *)

\* the JSON objects over the given keys, with values taken from `full`
Objects(keys, full) ==
    {[k \in {"state"} \cup present |->
        IF k = "state" THEN "ok" ELSE IF k \in filled THEN full[k] ELSE <<>>] :
      present \in SUBSET keys, filled \in SUBSET keys}

SymptomsFileStates ==
    {MissingFile, InvalidJsonFile, ListFile}
        \cup Objects({"symptom_map", "disease_symptoms"}, KaggleSymptomsFile)

RemediesFileStates ==
    {MissingFile, InvalidJsonFile, ListFile}
        \cup Objects({"remedy_database", "disease_precautions", "emergency_symptoms"},
                     KaggleRemediesFile)

\* before the package is imported no table is bound
Unbound == None

InitLoad ==
    /\ SYMPTOM_MAP = Unbound
    /\ EMERGENCY_SYMPTOMS = Unbound
    /\ REMEDY_DB = Unbound
    /\ PRECAUTIONS_DB = Unbound
    /\ symptom_map = Unbound
    /\ disease_symptoms = Unbound
    /\ symptom_weights = Unbound
    /\ remedy_database = Unbound
    /\ precautions_database = Unbound
    /\ CheckerInit
    /\ WebInit
    /\ conversation_history = <<>>
    /\ advanced_mode = FALSE
    /\ last_diagnosis = None
    /\ current_symptoms = <<>>
    /\ text = <<>>
    /\ call = "none"
    /\ result = None

\* SYMPTOM_MAP = load_symptom_map()
LoadSymptomMap ==
    /\ call = "none"
    /\ call' = "load_symptom_map"
    /\ \E file \in SymptomsFileStates :
        /\ result' = [file |-> file, outcome |-> load_symptom_map(file)]
        /\ SYMPTOM_MAP' = IF load_symptom_map(file).raised THEN SYMPTOM_MAP
                          ELSE load_symptom_map(file).value
    /\ UNCHANGED <<Web, EMERGENCY_SYMPTOMS, REMEDY_DB, PRECAUTIONS_DB, symptom_map,
                   disease_symptoms, symptom_weights, remedy_database,
                   precautions_database, Bot, Checker, text>>

\* EMERGENCY_SYMPTOMS = load_emergency_symptoms()
LoadEmergencySymptoms ==
    /\ call = "none"
    /\ call' = "load_emergency_symptoms"
    /\ \E file \in RemediesFileStates :
        /\ result' = [file |-> file, outcome |-> load_emergency_symptoms(file)]
        /\ EMERGENCY_SYMPTOMS' = IF load_emergency_symptoms(file).raised THEN EMERGENCY_SYMPTOMS
                                 ELSE load_emergency_symptoms(file).value
    /\ UNCHANGED <<Web, SYMPTOM_MAP, REMEDY_DB, PRECAUTIONS_DB, symptom_map,
                   disease_symptoms, symptom_weights, remedy_database,
                   precautions_database, Bot, Checker, text>>

\* REMEDY_DB, PRECAUTIONS_DB = load_remedy_database()
LoadRemedyDatabase ==
    /\ call = "none"
    /\ call' = "load_remedy_database"
    /\ \E file \in RemediesFileStates :
        /\ result' = [file |-> file, outcome |-> load_remedy_database(file)]
        /\ REMEDY_DB' = IF load_remedy_database(file).raised THEN REMEDY_DB
                        ELSE load_remedy_database(file).value[1]
        /\ PRECAUTIONS_DB' = IF load_remedy_database(file).raised THEN PRECAUTIONS_DB
                             ELSE load_remedy_database(file).value[2]
    /\ UNCHANGED <<Web, SYMPTOM_MAP, EMERGENCY_SYMPTOMS, symptom_map,
                   disease_symptoms, symptom_weights, remedy_database,
                   precautions_database, Bot, Checker, text>>

\* AdvancedDiagnosisEngine(): load_medical_data and calculate_symptom_weights
LoadMedicalData ==
    /\ call = "none"
    /\ call' = "load_medical_data"
    /\ \E file \in SymptomsFileStates :
        /\ result' = [file |-> file, outcome |-> Returned(load_medical_data(file))]
        /\ symptom_map' = load_medical_data(file)[1]
        /\ disease_symptoms' = load_medical_data(file)[2]
        /\ symptom_weights' = calculate_symptom_weights(load_medical_data(file)[2])
    /\ UNCHANGED <<Web, SYMPTOM_MAP, EMERGENCY_SYMPTOMS, REMEDY_DB, PRECAUTIONS_DB,
                   remedy_database, precautions_database, Bot, Checker, text>>

\* EnhancedRemedySystem(): load_remedy_data and
\* initialize_comprehensive_remedies
LoadRemedyData ==
    /\ call = "none"
    /\ call' = "load_remedy_data"
    /\ \E file \in RemediesFileStates :
        /\ result' = [file |-> file, outcome |-> Returned(load_remedy_data(file))]
        /\ remedy_database' = EnhancedRemedySystem(file)[1]
        /\ precautions_database' = EnhancedRemedySystem(file)[2]
    /\ UNCHANGED <<Web, SYMPTOM_MAP, EMERGENCY_SYMPTOMS, REMEDY_DB, PRECAUTIONS_DB,
                   symptom_map, disease_symptoms, symptom_weights, Bot, Checker, text>>

NextLoad ==
    \/ LoadSymptomMap
    \/ LoadEmergencySymptoms
    \/ LoadRemedyDatabase
    \/ LoadMedicalData
    \/ LoadRemedyData

SpecLoad == InitLoad /\ [][NextLoad]_vars

-----------------------------------------------------------------------------
(* Two sessions that call the entry points of the package in any order, up  *)
(* to MaxCalls calls.  comprehensive_symptom_check runs start_symptom_check  *)
(* on the module-level comprehensive_symptom_checker, and answer_question is *)
(* called on that checker.  `alone` follows, for each session, the checker   *)
(* it would have if no other session made calls: result.alone holds the      *)
(* outcomes the call can have on it.                                         *)

SessionTexts == {Str("vomiting"), Str("itching"), Str("Chest Pain"), Str("xyzzy")}

SessionAnswers == {Str("yes"), Str("headache")}

QuestionIndexes == {0, 1}

ConditionNames == {Str("viral infection"), Str("Viral Infection"), Str("diabetes"),
                   Str("DIABETES"), Str("xyzzy")}

\* comprehensive_symptom_checker.answer_question(question_index, answer) by
\* a session that has started a check
AnswerQuestionBy(s, question_index, answer) ==
    /\ calls < MaxCalls
    /\ "initial_input" \in DOMAIN alone[s].session_data
    /\ calls' = calls + 1
    /\ call' = "answer_question"
    /\ text' = answer
    /\ LET each(possible) ==
               \E outcome \in answer_question(TheChecker, question_index, answer) :
                   CheckerCall(s, outcome, possible)
       IN  each(answer_question(alone[s], question_index, answer))
    /\ UNCHANGED <<Web, Tables, Bot>>

\* a call of an entry point that reads no checker: what it returns is what it
\* can return alone
PureCall(s, name, symptom_text, returned, possible) ==
    /\ calls < MaxCalls
    /\ calls' = calls + 1
    /\ call' = name
    /\ text' = symptom_text
    /\ result' = [session |-> s, observed |-> returned, alone |-> possible]
    /\ UNCHANGED <<Web, Tables, Bot, checker_symptoms, answered_questions, session_data, alone>>

\* analyze_symptoms(symptom_text) by session s
AnalyzeSymptomsBy(s, symptom_text) ==
    LET any(possible) ==
            \E returned \in possible :
                PureCall(s, "analyze_symptoms", symptom_text, returned, possible)
    IN  any(analyze_symptoms(symptom_text))

\* advanced_analyze_symptoms(symptom_text) by session s
AdvancedAnalyzeSymptomsBy(s, symptom_text) ==
    LET any(possible) ==
            \E returned \in possible :
                PureCall(s, "advanced_analyze_symptoms", symptom_text, returned, possible)
    IN  any(advanced_analyze_symptoms(symptom_text))

\* a variant of the lookup that stores an empty entry for a condition it does
\* not find (remedy_database.setdefault(condition, []))
LookupSetDefault(name, condition, found) ==
    /\ calls < MaxCalls
    /\ calls' = calls + 1
    /\ call' = name
    /\ result' = [condition |-> condition, found |-> found]
    /\ remedy_database' = IF DictHas(remedy_database, condition) THEN remedy_database
                          ELSE Append(remedy_database, <<condition, <<>>>>)
    /\ UNCHANGED <<Web, SYMPTOM_MAP, EMERGENCY_SYMPTOMS, REMEDY_DB, PRECAUTIONS_DB,
                   symptom_map, disease_symptoms, symptom_weights, precautions_database,
                   Bot, checker_symptoms, answered_questions, session_data, alone, text>>

\* a content lookup: [condition, found]
Lookup(name, condition, found) ==
    /\ calls < MaxCalls
    /\ calls' = calls + 1
    /\ call' = name
    /\ result' = [condition |-> condition, found |-> found]
    /\ UNCHANGED <<Web, Tables, Bot, checker_symptoms, answered_questions, session_data, alone, text>>

\* ai_engine.get_remedies(condition)
GetRemedies == \E condition \in ConditionNames :
    Lookup("get_remedies", condition, get_remedies(condition))

\* ai_engine.get_precautions(condition)
GetPrecautions == \E condition \in ConditionNames :
    Lookup("get_precautions", condition, get_precautions(condition))

\* enhanced_remedy_system.get_remedies(condition)
EnhancedGetRemedies == \E condition \in ConditionNames :
    Lookup("enhanced_get_remedies", condition, enhanced_get_remedies(condition))

\* enhanced_remedy_system.get_precautions(condition)
EnhancedGetPrecautions == \E condition \in ConditionNames :
    Lookup("enhanced_get_precautions", condition, enhanced_get_precautions(condition))

\* enhanced_remedy_system.get_lifestyle_recommendations(condition)
GetLifestyleRecommendations == \E condition \in ConditionNames :
    Lookup("get_lifestyle_recommendations", condition, get_lifestyle_recommendations(condition))

\* enhanced_remedy_system.get_dietary_recommendations(condition)
GetDietaryRecommendations == \E condition \in ConditionNames :
    Lookup("get_dietary_recommendations", condition, get_dietary_recommendations(condition))

InitSessions ==
    /\ \E sf \in SymptomsFiles :
        /\ SYMPTOM_MAP = load_symptom_map(sf).value
        /\ symptom_map = load_medical_data(sf)[1]
        /\ disease_symptoms = load_medical_data(sf)[2]
        /\ symptom_weights = calculate_symptom_weights(load_medical_data(sf)[2])
    /\ \E rf \in RemediesFiles :
        /\ EMERGENCY_SYMPTOMS = load_emergency_symptoms(rf).value
        /\ REMEDY_DB = load_remedy_database(rf).value[1]
        /\ PRECAUTIONS_DB = load_remedy_database(rf).value[2]
        /\ remedy_database = EnhancedRemedySystem(rf)[1]
        /\ precautions_database = EnhancedRemedySystem(rf)[2]
    /\ CheckerInit
    /\ WebInit
    /\ conversation_history = <<>>
    /\ advanced_mode = FALSE
    /\ last_diagnosis = None
    /\ current_symptoms = <<>>
    /\ text = <<>>
    /\ call = "none"
    /\ result = None

NextSessions ==
    \/ \E s \in Sessions, symptom_text \in SessionTexts : StartSymptomCheckBy(s, symptom_text)
    \/ \E s \in Sessions, question_index \in QuestionIndexes, answer \in SessionAnswers :
        AnswerQuestionBy(s, question_index, answer)
    \/ \E s \in Sessions, symptom_text \in SessionTexts : AnalyzeSymptomsBy(s, symptom_text)
    \/ \E s \in Sessions, symptom_text \in SessionTexts : AdvancedAnalyzeSymptomsBy(s, symptom_text)
    \/ GetRemedies
    \/ GetPrecautions
    \/ EnhancedGetRemedies
    \/ EnhancedGetPrecautions
    \/ GetLifestyleRecommendations
    \/ GetDietaryRecommendations

SpecSessions == InitSessions /\ [][NextSessions]_vars

-----------------------------------------------------------------------------
(* One guided session: ComprehensiveSymptomChecker.start_symptom_check and   *)
(* then answer_question calls with any question index and any answer.  The   *)
(* session is session 1, the only one, so the checker it would have alone is *)
(* the checker it has.                                                       *)

\* the answer_question calls followed after the start
MaxAnswers == 5

CheckTexts == {Str("vomiting"), Str("itching"), Str("Chest Pain")}

CheckAnswers == {Str("yes"), Str("I have chest pain")}

CheckIndexes == 0..4

\* start_symptom_check(initial_symptoms), the first call of the session
StartCheck == \E initial_symptoms \in CheckTexts :
    /\ call = "none"
    /\ StartSymptomCheckBy(1, initial_symptoms)

\* answer_question(question_index, answer) on the started checker
AnswerQuestion == \E question_index \in CheckIndexes, answer \in CheckAnswers :
    /\ call # "none"
    /\ calls <= MaxAnswers
    /\ calls' = calls + 1
    /\ call' = "answer_question"
    /\ text' = answer
    /\ LET any(possible) == \E outcome \in possible : CheckerCall(1, outcome, possible)
       IN  any(answer_question(TheChecker, question_index, answer))
    /\ UNCHANGED <<Web, Tables, Bot>>

NextChecker ==
    \/ StartCheck
    \/ AnswerQuestion

SpecChecker == InitSessions /\ [][NextChecker]_vars

-----------------------------------------------------------------------------
(* The web shell (web_interface.py): Flask serves every request on a thread *)
(* of its own, and the threads share the module-level chatbot_sessions.     *)
(* A step is one statement of a view function that reads or writes it.      *)
(* A session_id is the number of ids issued so far plus one (uuid4), a      *)
(* chatbot is known by its place in chatbots.  A chatbot's reply is left    *)
(* open here: the shell only passes it on.                                  *)

\* the requests of a run
MaxRequests == 3

\* the message of an /analyze request
WebMessages == {Str("fever"), Str("3 days")}

\* MedicalChatBot(): the fields of a new chatbot
MedicalChatBot ==
    [conversation_history |-> <<>>, advanced_mode |-> FALSE,
     last_diagnosis |-> None, current_symptoms |-> <<>>]

\* del d[k]
DictDel(d, k) == SelectSeq(d, LAMBDA kv : kv[1] # k)

\* thread t goes on to the statement at pc
GoTo(t, pc) == requests' = [requests EXCEPT ![t].pc = pc]

\* the response leaves: the thread is free, and the browser stores the
\* session the view has changed
Respond(t, changed, session_id) ==
    /\ requests' = [requests EXCEPT ![t] = Idle]
    /\ cookie' = IF changed THEN [cookie EXCEPT ![requests[t].browser] = session_id]
                 ELSE cookie

\* analyze, up to session_id = session['session_id']: a browser without a
\* session gets a new id
AnalyzeReceive(t) ==
    /\ requests[t].pc = "idle"
    /\ calls < MaxRequests
    /\ calls' = calls + 1
    /\ \E browser \in Browsers, user_message \in WebMessages :
        LET new == cookie[browser] = NoCookie
            session_id == IF new THEN Len(served) + 1 ELSE cookie[browser]
        IN  /\ requests' = [requests EXCEPT ![t] =
                    [pc |-> "analyze_check", view |-> "analyze", browser |-> browser,
                     user_message |-> user_message, session_id |-> session_id,
                     new |-> new, chatbot |-> 0]]
            /\ served' = IF new THEN Append(served, NotServed) ELSE served
    /\ call' = "analyze"
    /\ UNCHANGED <<Tables, Bot, checker_symptoms, answered_questions, session_data, alone,
                   chatbot_sessions, chatbots, cookie, text, result>>

\* if session_id not in chatbot_sessions:
AnalyzeCheck(t) ==
    /\ requests[t].pc = "analyze_check"
    /\ GoTo(t, IF DictHas(chatbot_sessions, requests[t].session_id)
               THEN "analyze_fetch" ELSE "analyze_create")
    /\ UNCHANGED <<Tables, Bot, Checker, chatbot_sessions, chatbots, cookie, served,
                   text, call, result>>

\* chatbot_sessions[session_id] = MedicalChatBot()
AnalyzeCreate(t) ==
    /\ requests[t].pc = "analyze_create"
    /\ chatbots' = Append(chatbots, MedicalChatBot)
    /\ chatbot_sessions' = DictPut(chatbot_sessions, requests[t].session_id, Len(chatbots) + 1)
    /\ served' = [served EXCEPT ![requests[t].session_id].created =
                        @ \cup {Len(chatbots) + 1}]
    /\ GoTo(t, "analyze_fetch")
    /\ UNCHANGED <<Tables, Bot, Checker, cookie, text, call, result>>

\* chatbot = chatbot_sessions[session_id]; a KeyError is answered by the
\* error response of the except clause
AnalyzeFetch(t) ==
    /\ requests[t].pc = "analyze_fetch"
    /\ IF DictHas(chatbot_sessions, requests[t].session_id)
       THEN /\ requests' = [requests EXCEPT
                    ![t].pc = "analyze_process",
                    ![t].chatbot = DictGet(chatbot_sessions, requests[t].session_id, 0)]
            /\ UNCHANGED <<cookie, result>>
       ELSE /\ Respond(t, requests[t].new, requests[t].session_id)
            /\ result' = [type |-> "error", status |-> 500]
    /\ UNCHANGED <<Tables, Bot, Checker, chatbot_sessions, chatbots, served, text, call>>

\* response = chatbot.process_user_input(user_message), and the response
AnalyzeProcess(t) ==
    /\ requests[t].pc = "analyze_process"
    /\ LET chatbot == requests[t].chatbot
           user_message == requests[t].user_message
           history == Append(chatbots[chatbot].conversation_history,
                             [role |-> "user", content |-> user_message])
       IN  /\ chatbots' = [chatbots EXCEPT ![chatbot].conversation_history =
                                StoreResponse(history, [kind |-> "response"])]
           /\ served' = [served EXCEPT ![requests[t].session_id].answered =
                                @ \cup {chatbot}]
    /\ Respond(t, requests[t].new, requests[t].session_id)
    /\ result' = [type |-> "medical_analysis", status |-> 200]
    /\ UNCHANGED <<Tables, Bot, Checker, chatbot_sessions, text, call>>

\* clear_session, up to session_id = session['session_id']; without a session
\* it answers at once
ClearReceive(t) ==
    /\ requests[t].pc = "idle"
    /\ calls < MaxRequests
    /\ calls' = calls + 1
    /\ \E browser \in Browsers :
        IF cookie[browser] = NoCookie
        THEN /\ result' = [status |-> "success"]
             /\ UNCHANGED requests
        ELSE /\ requests' = [requests EXCEPT ![t] =
                    [pc |-> "clear_check", view |-> "clear_session", browser |-> browser,
                     user_message |-> <<>>, session_id |-> cookie[browser],
                     new |-> FALSE, chatbot |-> 0]]
             /\ UNCHANGED result
    /\ call' = "clear_session"
    /\ UNCHANGED <<Tables, Bot, checker_symptoms, answered_questions, session_data, alone,
                   chatbot_sessions, chatbots, cookie, served, text>>

\* if session_id in chatbot_sessions:
ClearCheck(t) ==
    /\ requests[t].pc = "clear_check"
    /\ GoTo(t, IF DictHas(chatbot_sessions, requests[t].session_id)
               THEN "clear_del" ELSE "clear_end")
    /\ UNCHANGED <<Tables, Bot, Checker, chatbot_sessions, chatbots, cookie, served,
                   text, call, result>>

\* del chatbot_sessions[session_id]; a KeyError is answered by the error
\* response of the except clause, and the session is kept
ClearDelete(t) ==
    /\ requests[t].pc = "clear_del"
    /\ IF DictHas(chatbot_sessions, requests[t].session_id)
       THEN /\ chatbot_sessions' = DictDel(chatbot_sessions, requests[t].session_id)
            /\ served' = [served EXCEPT ![requests[t].session_id].created = {}]
            /\ GoTo(t, "clear_end")
            /\ UNCHANGED <<cookie, result>>
       ELSE /\ Respond(t, FALSE, NoCookie)
            /\ result' = [status |-> "error"]
            /\ UNCHANGED <<chatbot_sessions, served>>
    /\ UNCHANGED <<Tables, Bot, Checker, chatbots, text, call>>

\* session.clear(), and the response
ClearEnd(t) ==
    /\ requests[t].pc = "clear_end"
    /\ Respond(t, TRUE, NoCookie)
    /\ result' = [status |-> "success"]
    /\ UNCHANGED <<Tables, Bot, Checker, chatbot_sessions, chatbots, served, text, call>>

Analyze ==
    \E t \in Threads :
        \/ AnalyzeReceive(t)
        \/ AnalyzeCheck(t)
        \/ AnalyzeCreate(t)
        \/ AnalyzeFetch(t)
        \/ AnalyzeProcess(t)

ClearSession ==
    \E t \in Threads :
        \/ ClearReceive(t)
        \/ ClearCheck(t)
        \/ ClearDelete(t)
        \/ ClearEnd(t)

NextWeb ==
    \/ Analyze
    \/ ClearSession

\* the web shell as started: chatbot_sessions is empty, while a browser may
\* still hold the session of an earlier run of the server (the cookie is
\* signed with the fixed app.secret_key); browser b's earlier id is b
InitWeb ==
    /\ SYMPTOM_MAP = load_symptom_map(MissingFile).value
    /\ symptom_map = load_medical_data(MissingFile)[1]
    /\ disease_symptoms = load_medical_data(MissingFile)[2]
    /\ symptom_weights = calculate_symptom_weights(load_medical_data(MissingFile)[2])
    /\ EMERGENCY_SYMPTOMS = load_emergency_symptoms(MissingFile).value
    /\ REMEDY_DB = load_remedy_database(MissingFile).value[1]
    /\ PRECAUTIONS_DB = load_remedy_database(MissingFile).value[2]
    /\ remedy_database = EnhancedRemedySystem(MissingFile)[1]
    /\ precautions_database = EnhancedRemedySystem(MissingFile)[2]
    /\ CheckerInit
    /\ chatbot_sessions = EmptyDict
    /\ chatbots = <<>>
    /\ cookie \in {c \in [Browsers -> {NoCookie} \cup Browsers] :
                        \A b \in Browsers : c[b] \in {NoCookie, b}}
    /\ requests = [t \in Threads |-> Idle]
    /\ served = [b \in 1..Cardinality(Browsers) |-> NotServed]
    /\ conversation_history = <<>>
    /\ advanced_mode = FALSE
    /\ last_diagnosis = None
    /\ current_symptoms = <<>>
    /\ text = <<>>
    /\ call = "none"
    /\ result = None

SpecWeb == InitWeb /\ [][NextWeb]_vars

-----------------------------------------------------------------------------
(* Properties.  The danger phrases, keywords and table entries are looked   *)
(* up here directly in the tables, not through the operators above.         *)

\* the lower-cased text contains a configured danger phrase
HasDangerPhrase(t) ==
    \E phrase \in ToSet(EMERGENCY_SYMPTOMS) : Contains(Lower(t), phrase)

\* the keywords of SYMPTOM_MAP that occur in the lower-cased text
KeywordsIn(t) ==
    {kv[1] : kv \in {e \in ToSet(SYMPTOM_MAP) : Contains(Lower(t), e[1])}}

\* the conditions those keywords are mapped to
ConditionsIn(t) ==
    {kv[2] : kv \in {e \in ToSet(SYMPTOM_MAP) : Contains(Lower(t), e[1])}}

\* how many keywords found in the text are mapped to the condition
KeywordCount(t, condition) ==
    Cardinality({e \in ToSet(SYMPTOM_MAP) : Contains(Lower(t), e[1]) /\ e[2] = condition})

\* the entry of a table for a condition, the empty list when it has none
EntryOf(table, condition) ==
    IF \E e \in ToSet(table) : e[1] = condition
    THEN (CHOOSE e \in ToSet(table) : e[1] = condition)[2]
    ELSE <<>>

\* C1: for every text whose lower-cased form contains a danger phrase,
\* analyze_symptoms returns the emergency payload with diagnosis None and
\* empty remedies and precautions, and advanced_analyze_symptoms returns
\* type 'emergency'; neither returns a diagnosis
EmergencyPrecedence ==
    HasDangerPhrase(text) =>
        /\ call = "analyze_symptoms" =>
            /\ result.emergency.emergency
            /\ result.emergency.level = "critical"
            /\ result.diagnosis = None
            /\ result.remedies = <<>>
            /\ result.precautions = <<>>
        /\ call = "advanced_analyze_symptoms" =>
            /\ result.type = "emergency"
            /\ result.emergency.emergency
            /\ "primary_diagnosis" \notin DOMAIN result

\* a text with a danger phrase and a symptom keyword went through
\* analyze_symptoms and came out as the emergency payload
EmergencyPrecedenceWitness ==
    /\ call = "analyze_symptoms"
    /\ HasDangerPhrase(text)
    /\ KeywordsIn(text) # {}
    /\ result.diagnosis = None

\* the reply of the chatbot is the emergency response of its mode
IsEmergencyReply(reply) ==
    \/ reply.kind = "simple_analysis" /\ reply.text.kind = "urgent_medical_attention"
    \/ reply.kind = "medical_emergency_detected"

\* C2: for every user text containing a danger phrase,
\* analyze_symptoms_conversational and MedicalChatBot.process_user_input (in
\* either mode, whatever the preceding conversation) produce the emergency
\* response, never a greeting, a clarification request, a follow-up reply or
\* a normal diagnosis
EmergencyGateOnRawText ==
    HasDangerPhrase(text) =>
        /\ call = "analyze_symptoms_conversational" =>
            /\ result.type = "medical_analysis"
            /\ result.diagnosis_result.emergency.emergency
            /\ result.response.kind = "urgent_medical_attention"
        /\ call = "process_user_input" => IsEmergencyReply(result)

\* C3: when calculate_disease_probability returns a non-empty result, every
\* score lies in [0,1] and some score is exactly 1; it never raises
\* ZeroDivisionError
ScoresNormalised ==
    call = "calculate_disease_probability" =>
        /\ ~result.outcome.raised
        /\ Len(result.outcome.scores) > 0 =>
            /\ \A i \in 1..Len(result.outcome.scores) :
                /\ RLe(Zero, result.outcome.scores[i][2])
                /\ RLe(result.outcome.scores[i][2], One)
            /\ \E i \in 1..Len(result.outcome.scores) : result.outcome.scores[i][2] = One

\* a list scored against a lexicon with an empty profile, two diseases scored,
\* one of them below 1
ScoresNormalisedWitness ==
    /\ call = "calculate_disease_probability"
    /\ \E d \in 1..Len(disease_symptoms) : Len(disease_symptoms[d][2]) = 0
    /\ Len(result.outcome.scores) >= 2
    /\ \E i \in 1..Len(result.outcome.scores) :
        /\ result.outcome.scores[i][2] # One
        /\ result.outcome.scores[i][2] # Zero

\* C4: extracting from the space-joined output of an extraction, in any join
\* order, returns the same set as the extraction, for both extractors
ExtractionIdempotent ==
    call \in {"extract_symptoms_from_text_again", "nlp_extract_again"} =>
        ToSet(result.again) = ToSet(result.symptoms)

\* the confidence labels, lowest first
ConfidenceLabels == <<"very low", "low", "medium", "high", "very high">>

ConfidenceRank(label) == CHOOSE r \in 1..Len(ConfidenceLabels) : ConfidenceLabels[r] = label

\* C5: for a fixed symptom_count and scores s1 <= s2 of [0,1], the label of s2
\* is at least as high as the label of s1
ConfidenceMonotone ==
    call = "get_confidence_level" =>
        \A k \in 0..ScoreSteps :
            RLe(Rat(k, ScoreSteps), result.top_score) =>
                ConfidenceRank(get_confidence_level(Rat(k, ScoreSteps), result.symptom_count))
                    <= ConfidenceRank(result.confidence)

\* a score labelled 'high' with a lower score labelled lower at the same count
ConfidenceMonotoneWitness ==
    /\ call = "get_confidence_level"
    /\ result.confidence = "high"
    /\ \E k \in 0..ScoreSteps :
        /\ RLe(Rat(k, ScoreSteps), result.top_score)
        /\ get_confidence_level(Rat(k, ScoreSteps), result.symptom_count) = "low"

\* the threshold table of the specification, on the score n/d
TableLabel(n, d, count) ==
    IF 10 * n >= 8 * d /\ count >= 3 THEN "very high"
    ELSE IF 10 * n >= 6 * d /\ count >= 2 THEN "high"
    ELSE IF 10 * n >= 4 * d THEN "medium"
    ELSE IF 10 * n >= 2 * d THEN "low"
    ELSE "very low"

\* C6: get_confidence_level returns the label of the first matching row of
\* the threshold table, tried top to bottom, and always one of the five labels
FirstMatchingRow ==
    call = "get_confidence_level" =>
        /\ result.confidence =
                TableLabel(result.top_score[1], result.top_score[2], result.symptom_count)
        /\ result.confidence \in ToSet(ConfidenceLabels)

\* a score of at least 0.8 with two symptoms: the first row fails on the
\* count and the second row gives 'high'
FirstMatchingRowWitness ==
    /\ call = "get_confidence_level"
    /\ RLe(Rat(8, 10), result.top_score)
    /\ result.symptom_count = 2
    /\ result.confidence = "high"

\* C7: check_emergency reports emergency True with level 'critical' exactly
\* when the lower-cased text contains a danger phrase, a phrase inside a
\* denial included; otherwise emergency False with level 'normal'
CheckEmergencyIffDangerPhrase ==
    call = "check_emergency" =>
        IF HasDangerPhrase(text)
        THEN result.emergency /\ result.level = "critical"
        ELSE ~result.emergency /\ result.level = "normal"

\* the denial 'no Chest Pain' triggered the emergency
CheckEmergencyIffDangerPhraseWitness ==
    /\ call = "check_emergency"
    /\ text = Str("no Chest Pain")
    /\ result.emergency
    /\ result.level = "critical"

\* C8: diagnose returns 'unknown' when no keyword occurs in the lower-cased
\* text; otherwise a condition whose number of matched keywords is maximal,
\* with confidence 'high' when at least two keywords matched and 'medium'
\* when one did.  A text that is one keyword, holds no other keyword and no
\* danger phrase, is diagnosed by analyze_symptoms as the keyword's condition
\* with emergency False
DiagnoseMostMatchedCondition ==
    /\ call = "diagnose" =>
        IF KeywordsIn(text) = {}
        THEN result.condition = Str("unknown")
        ELSE /\ result.condition \in ConditionsIn(text)
             /\ \A c \in ConditionsIn(text) :
                    KeywordCount(text, c) <= KeywordCount(text, result.condition)
             /\ result.confidence =
                    IF Cardinality(KeywordsIn(text)) >= 2 THEN "high" ELSE "medium"
    /\ (call = "analyze_symptoms" /\ KeywordsIn(text) = {text} /\ ~HasDangerPhrase(text)) =>
        /\ result.diagnosis.condition = EntryOf(SYMPTOM_MAP, text)
        /\ ~result.emergency.emergency

\* diagnose chose between two matched conditions with different numbers of
\* matched keywords
DiagnoseMostMatchedConditionWitness ==
    /\ call = "diagnose"
    /\ \E c \in ConditionsIn(text) : KeywordCount(text, c) < KeywordCount(text, result.condition)
    /\ result.confidence = "high"

\* C9: for a non-emergency text the remedies and precautions returned by
\* analyze_symptoms are the remedy-table and precaution-table entries of the
\* returned condition, in table order; for 'unknown' or a condition without
\* an entry they are empty, and emergency is False
RemediesOfDiagnosedCondition ==
    (call = "analyze_symptoms" /\ ~HasDangerPhrase(text)) =>
        /\ ~result.emergency.emergency
        /\ result.remedies = EntryOf(REMEDY_DB, result.diagnosis.condition)
        /\ result.precautions = EntryOf(PRECAUTIONS_DB, result.diagnosis.condition)
        /\ result.diagnosis.condition = Str("unknown") =>
            result.remedies = <<>> /\ result.precautions = <<>>

\* 'sore throat' was diagnosed as throat infection, Salt Water Gargle first
RemediesOfDiagnosedConditionWitness ==
    /\ call = "analyze_symptoms"
    /\ text = Str("sore throat")
    /\ result.diagnosis.condition = Str("throat infection")
    /\ Len(result.remedies) >= 2
    /\ result.remedies[1] = "Salt Water Gargle"

\* the text holds no keyword of the engine's lexicon and no synonym phrase
Unrecognised(t) ==
    /\ \A kv \in ToSet(symptom_map) : ~Contains(Strip(Lower(t)), kv[1])
    /\ \A sv \in ToSet(symptom_variations) :
        \A v \in ToSet(sv[2]) : ~Contains(Strip(Lower(t)), v)

\* the structured 'unknown' outcome of advanced_diagnose
IsUnknownDiagnosis(r) ==
    /\ r.primary_diagnosis.condition = Str("unknown")
    /\ r.differential_diagnosis = <<>>
    /\ r.extracted_symptoms = <<>>

\* C10 as stated: for a text without lexicon keyword and synonym phrase the
\* extractor returns the empty set and advanced_diagnose and
\* advanced_analyze_symptoms return the structured 'unknown' outcome
UnrecognisedIsUnknown ==
    Unrecognised(text) =>
        /\ call = "extract_symptoms_from_text" => result = <<>>
        /\ call = "advanced_diagnose" => IsUnknownDiagnosis(result)
        /\ call = "advanced_analyze_symptoms" =>
            result.type = "unknown" /\ result.extracted_symptoms = <<>>

\* C10, amended: the same, except that advanced_analyze_symptoms returns the
\* 'unknown' outcome only for a text without danger phrase; with one it
\* returns type 'emergency'
UnrecognisedIsUnknownUnlessEmergency ==
    Unrecognised(text) =>
        /\ call = "extract_symptoms_from_text" => result = <<>>
        /\ call = "advanced_diagnose" => IsUnknownDiagnosis(result)
        /\ call = "advanced_analyze_symptoms" =>
            IF HasDangerPhrase(text)
            THEN result.type = "emergency"
            ELSE result.type = "unknown" /\ result.extracted_symptoms = <<>>

\* 'xyzzy' went through advanced_analyze_symptoms with a loaded lexicon and
\* came out as 'unknown'
UnrecognisedIsUnknownWitness ==
    /\ call = "advanced_analyze_symptoms"
    /\ Len(symptom_map) > 0
    /\ text = Str("xyzzy")
    /\ Unrecognised(text)
    /\ result.type = "unknown"
    /\ result.extracted_symptoms = <<>>

\* C11 as stated: when no symptom was extracted, the 'unknown' outcome of
\* advanced_diagnose and the clarification result of start_symptom_check
\* carry a suggestion list that is non-empty and has at most 8 entries
SuggestionsOneToEight ==
    /\ call = "advanced_diagnose" /\ result.extracted_symptoms = <<>> =>
        Len(result.suggestions) \in 1..8
    /\ call = "start_symptom_check"
       /\ result.observed.result.type = "clarification_needed" =>
        Len(result.observed.result.suggestions) \in 1..8

\* the file given to a loader cannot be used: it is missing, not valid JSON,
\* not a JSON object, or an object without one of the keys the loader reads
Unusable(file, keys) ==
    file.state # "ok" \/ \E k \in keys : k \notin DOMAIN file

\* the keys each loader reads
KeysRead ==
    [load_symptom_map |-> {"symptom_map"},
     load_emergency_symptoms |-> {"emergency_symptoms"},
     load_remedy_database |-> {"remedy_database", "disease_precautions"},
     load_medical_data |-> {"symptom_map", "disease_symptoms"},
     load_remedy_data |-> {"remedy_database", "disease_precautions"}]

\* C12 as stated: whatever the state of the data file, each loader finishes
\* without raising, and on a file it cannot use it leaves its component on
\* a non-empty built-in default table
LoadersFallBack ==
    call \in DOMAIN KeysRead =>
        /\ ~result.outcome.raised
        /\ Unusable(result.file, KeysRead[call]) =>
            /\ call = "load_symptom_map" => Len(SYMPTOM_MAP) > 0
            /\ call = "load_emergency_symptoms" => Len(EMERGENCY_SYMPTOMS) > 0
            /\ call = "load_remedy_database" => Len(REMEDY_DB) > 0
            /\ call = "load_medical_data" => Len(symptom_map) > 0
            /\ call = "load_remedy_data" => Len(remedy_database) > 0

\* the symptoms of S whose primary condition in symptom_map is c
PrimaryOf(c, S) == {s \in S : \E i \in 1..Len(symptom_map) : symptom_map[i] = <<s, c>>}

\* P_c, the profile of c in disease_symptoms
Profile(c) ==
    UNION {ToSet(disease_symptoms[i][2]) : i \in {j \in 1..Len(disease_symptoms) : disease_symptoms[j][1] = c}}

\* weight(s): the entry of symptom_weights, 1.0 without one
Weight(s) == IF s \in DOMAIN symptom_weights THEN symptom_weights[s] ELSE One

RECURSIVE WeightSum(_)
WeightSum(S) ==
    IF S = {} THEN Zero
    ELSE LET s == CHOOSE x \in S : TRUE IN RAdd(Weight(s), WeightSum(S \ {s}))

\* the score the two paths give c for the symptom set S
ExpectedScore(c, S) ==
    RAdd(WeightSum(PrimaryOf(c, S)),
         IF S \cap Profile(c) = {} THEN Zero
         ELSE RMul(Rat(Cardinality(S \cap Profile(c)), Cardinality(Profile(c))),
                   WeightSum(S \cap Profile(c))))

\* the conditions of the lexicon
Conditions ==
    {symptom_map[i][2] : i \in 1..Len(symptom_map)}
        \cup {disease_symptoms[i][1] : i \in 1..Len(disease_symptoms)}

NoRepeats(seq) == \A i, j \in 1..Len(seq) : seq[i] = seq[j] => i = j

\* C13: for a symptom set S, the score of a condition c before normalisation
\* is the sum of the weights of the symptoms of S whose primary condition is
\* c, plus, when S meets the profile P_c, (|S n P_c| / |P_c|) times the sum
\* of the weights of S n P_c; both are added into one total, and a condition
\* that neither path reaches has no entry
AccumulatedScore ==
    call = "calculate_disease_probability" /\ NoRepeats(result.symptoms) =>
        /\ NoRepeats(DictKeys(result.accumulated))
        /\ \A i \in 1..Len(result.accumulated) :
            /\ result.accumulated[i][1] \in Conditions
            /\ \/ PrimaryOf(result.accumulated[i][1], ToSet(result.symptoms)) # {}
               \/ ToSet(result.symptoms) \cap Profile(result.accumulated[i][1]) # {}
            /\ result.accumulated[i][2] =
                   ExpectedScore(result.accumulated[i][1], ToSet(result.symptoms))
        /\ \A c \in Conditions :
            \/ PrimaryOf(c, ToSet(result.symptoms)) # {}
            \/ ToSet(result.symptoms) \cap Profile(c) # {}
            => c \in ToSet(DictKeys(result.accumulated))

\* two symptoms scored, and a condition reached by both paths whose total is
\* larger than either contribution
AccumulatedScoreWitness ==
    /\ call = "calculate_disease_probability"
    /\ NoRepeats(result.symptoms)
    /\ Len(result.symptoms) = 2
    /\ \E i \in 1..Len(result.accumulated) :
        LET c == result.accumulated[i][1]
            S == ToSet(result.symptoms) IN
        /\ PrimaryOf(c, S) # {}
        /\ S \cap Profile(c) # {}
        /\ Cardinality(Profile(c)) = 3
        /\ result.accumulated[i][2] # WeightSum(PrimaryOf(c, S))
    /\ \E c \in Conditions : c \notin ToSet(DictKeys(result.accumulated))

\* the number of conditions whose profile contains s
ConditionsContaining(s) ==
    Cardinality({i \in 1..Len(disease_symptoms) : s \in ToSet(disease_symptoms[i][2])})

\* the symptoms that occur in at least one profile
ProfileSymptoms == UNION {ToSet(disease_symptoms[i][2]) : i \in 1..Len(disease_symptoms)}

\* C14: after load, every symptom s of some profile has the weight
\* max(1, number of conditions / number of conditions whose profile contains
\* s); a condition with an empty profile is in no symptom's divisor, so no
\* divisor is zero; every weight is at least 1; a symptom of every condition
\* has weight 1; a symptom of exactly one condition has the largest weight
WeightsByInverseFrequency ==
    /\ DOMAIN symptom_weights = ProfileSymptoms
    /\ \A s \in ProfileSymptoms :
        /\ ConditionsContaining(s) > 0
        /\ symptom_weights[s] =
               RMax(One, Rat(Len(disease_symptoms), ConditionsContaining(s)))
        /\ RLe(One, symptom_weights[s])
        /\ ConditionsContaining(s) = Len(disease_symptoms) => symptom_weights[s] = One
        /\ ConditionsContaining(s) = 1 =>
               \A t \in ProfileSymptoms : RLe(symptom_weights[t], symptom_weights[s])

\* a lexicon with a symptom of every condition and a symptom of one condition
\* only, loaded and used by the scorer
WeightsByInverseFrequencyWitness ==
    /\ call = "calculate_disease_probability"
    /\ \E s, t \in ProfileSymptoms :
        /\ ConditionsContaining(s) = Len(disease_symptoms)
        /\ ConditionsContaining(t) = 1
        /\ symptom_weights[s] = One
        /\ symptom_weights[t] # One

\* the normalised score of a scored condition
ScoreIn(scores, disease) ==
    scores[CHOOSE k \in 1..Len(scores) : scores[k][1] = disease][2]

\* C15: get_differential_diagnosis(S, top_n) returns min(top_n, number of
\* scored conditions) candidates, in non-increasing order of normalised
\* score, with the ranks 1..k, and no scored condition it leaves out scores
\* strictly higher than one it returns; advanced_diagnose reports the rank-1
\* candidate as the primary diagnosis and the others, in order, as the
\* differential
RankedCandidates ==
    /\ call = "get_differential_diagnosis" =>
        /\ Len(result.candidates) = Min(result.top_n, Len(result.scores))
        /\ \A i \in 1..Len(result.candidates) :
            /\ result.candidates[i].rank = i
            /\ result.candidates[i].disease \in ToSet(DictKeys(result.scores))
            /\ result.candidates[i].score =
                   Round3(ScoreIn(result.scores, result.candidates[i].disease))
            /\ \A j \in 1..Len(result.candidates) :
                i < j =>
                    /\ result.candidates[i].disease # result.candidates[j].disease
                    /\ RLe(ScoreIn(result.scores, result.candidates[j].disease),
                           ScoreIn(result.scores, result.candidates[i].disease))
            /\ \A k \in 1..Len(result.scores) :
                (\A j \in 1..Len(result.candidates) :
                    result.candidates[j].disease # result.scores[k][1])
                => RLe(result.scores[k][2],
                       ScoreIn(result.scores, result.candidates[i].disease))
    /\ call = "advanced_diagnose_symptoms" =>
        IF result.diagnosis.primary_diagnosis.condition = Str("unknown")
        THEN /\ result.diagnosis.differential_diagnosis = <<>>
             /\ \/ result.symptoms = <<>>
                \/ get_differential_diagnosis(result.symptoms, DefaultTopN) = {<<>>}
        ELSE /\ \E ranked \in get_differential_diagnosis(result.symptoms, DefaultTopN) :
                /\ ranked[1].rank = 1
                /\ result.diagnosis.primary_diagnosis.condition = ranked[1].disease
                /\ result.diagnosis.primary_diagnosis.score = ranked[1].score
                /\ result.diagnosis.primary_diagnosis.confidence = ranked[1].confidence
                /\ result.diagnosis.differential_diagnosis = Tail(ranked)
             /\ \A i \in 1..Len(result.diagnosis.differential_diagnosis) :
                /\ result.diagnosis.differential_diagnosis[i].rank = i + 1
                /\ RLe(result.diagnosis.differential_diagnosis[i].score,
                       result.diagnosis.primary_diagnosis.score)

\* three conditions scored with three different scores and the two best asked
\* for: the third is left out
RankedCandidatesWitness ==
    /\ call = "get_differential_diagnosis"
    /\ result.top_n = 2
    /\ Len(result.scores) = 3
    /\ Len(result.candidates) = 2
    /\ result.candidates[1].score # result.candidates[2].score
    /\ result.scores[1][1] \notin {result.candidates[1].disease, result.candidates[2].disease}

\* advanced_diagnose with a primary diagnosis and two alternatives
RankedCandidatesDiagnosed ==
    /\ call = "advanced_diagnose_symptoms"
    /\ Len(result.diagnosis.differential_diagnosis) = 2

\* C16 as stated: the entry points share no mutable state across sessions:
\* whatever calls the other session makes in between, a call of
\* analyze_symptoms, advanced_analyze_symptoms, comprehensive_symptom_check
\* or answer_question returns what it can return, and leaves the session data
\* it can leave, when the session runs alone
SessionsIsolated ==
    call \in {"analyze_symptoms", "advanced_analyze_symptoms",
              "start_symptom_check", "answer_question"} =>
        result.observed \in result.alone

\* C17: no call changes a lexicon table: SYMPTOM_MAP, EMERGENCY_SYMPTOMS,
\* REMEDY_DB, PRECAUTIONS_DB, the engine's symptom_map, disease_symptoms and
\* symptom_weights, and the remedy and precaution databases of
\* EnhancedRemedySystem stay as construction left them
LexiconUnchanged == [][Tables' = Tables]_vars

\* a run of MaxCalls calls: a symptom check was started, and the last call
\* was a remedy lookup that found an entry
LexiconUnchangedWitness ==
    /\ calls = MaxCalls
    /\ call = "enhanced_get_remedies"
    /\ Len(result.found) > 0
    /\ Len(checker_symptoms) > 0

\* an action list: the immediate actions of an emergency payload
HasActionList(payload) ==
    /\ "immediate_actions" \in DOMAIN payload
    /\ Len(payload.immediate_actions) > 0

\* a warning text, in the payload or beside it in the result
HasWarningText(outer, payload) ==
    \/ "warning" \in DOMAIN payload
    \/ "warning" \in DOMAIN outer
    \/ "message" \in DOMAIN outer

\* C18 as stated: whenever the emergency gate triggers, the result of
\* advanced_analyze_symptoms and of start_symptom_check carries the emergency
\* payload with an action list and a warning text
EmergencyPayloadCarried ==
    /\ call = "advanced_analyze_symptoms" /\ HasDangerPhrase(text) =>
        /\ result.type = "emergency"
        /\ HasActionList(result.emergency_remedies)
        /\ HasWarningText(result, result.emergency_remedies)
    /\ call = "start_symptom_check" /\ HasDangerPhrase(text) =>
        /\ result.observed.result.type = "emergency"
        /\ HasActionList(result.observed.result.immediate_actions)
        /\ HasWarningText(result.observed.result,
                          result.observed.result.immediate_actions)

\* the danger phrases of the text, in the order of EMERGENCY_SYMPTOMS
DangerPhrasesIn(t) ==
    SelectSeq(EMERGENCY_SYMPTOMS, LAMBDA danger : Contains(Lower(t), danger))

\* C19 as stated: when the gate triggers, its result names the danger keyword
\* that matched, the first of the configured list when several match
MatchedKeywordReported ==
    call = "check_emergency" /\ result.emergency =>
        /\ "matched_keyword" \in DOMAIN result
        /\ result.matched_keyword = DangerPhrasesIn(text)[1]

\* the lookup functions by the name of their call
LookupNames == {"get_remedies", "get_precautions", "enhanced_get_remedies",
                "enhanced_get_precautions", "get_lifestyle_recommendations",
                "get_dietary_recommendations"}

\* what the lookup called `name` returns for `condition`
LookupOf(name, condition) ==
    CASE name = "get_remedies" -> get_remedies(condition)
      [] name = "get_precautions" -> get_precautions(condition)
      [] name = "enhanced_get_remedies" -> enhanced_get_remedies(condition)
      [] name = "enhanced_get_precautions" -> enhanced_get_precautions(condition)
      [] name = "get_lifestyle_recommendations" -> get_lifestyle_recommendations(condition)
      [] name = "get_dietary_recommendations" -> get_dietary_recommendations(condition)

\* the table the lookup called `name` reads
TableOf(name) ==
    CASE name = "get_remedies" -> REMEDY_DB
      [] name = "get_precautions" -> PRECAUTIONS_DB
      [] name = "enhanced_get_remedies" -> remedy_database
      [] name = "enhanced_get_precautions" -> precautions_database
      [] name = "get_lifestyle_recommendations" -> lifestyle_recommendations
      [] name = "get_dietary_recommendations" -> dietary_recommendations

\* C20 as stated: a content lookup goes by the case-folded condition name: it
\* returns for a condition what it returns for every case variant of it, and
\* an empty collection for a condition that has no entry
LookupCaseFolded ==
    call \in LookupNames =>
        /\ \A variant \in ConditionNames :
            Lower(variant) = Lower(result.condition) =>
                LookupOf(call, variant) = result.found
        /\ (\A i \in 1..Len(TableOf(call)) :
                Lower(TableOf(call)[i][1]) # Lower(result.condition))
           => DOMAIN result.found = {}

\* C21 as stated: the emergency gate applies to every text of a guided
\* session: a start text or an answer that holds a danger phrase gets the
\* emergency result, never 'continue_questions' or 'final_diagnosis'
EmergencyGateOnEveryAnswer ==
    call \in {"start_symptom_check", "answer_question"} /\ HasDangerPhrase(text) =>
        result.observed.result.type = "emergency"

\* C24 as stated: the guided flow ends: the answer that is the fifth (or a
\* later one) gets the final diagnosis, and an answer that gets more questions
\* reports as progress the number of answers given so far
GuidedFlowTerminates ==
    call = "answer_question" =>
        /\ calls - 1 >= 5 => result.observed.result.type = "final_diagnosis"
        /\ result.observed.result.type = "continue_questions" =>
                result.observed.result.progress = calls - 1

\* C22 as stated: what an extractor returns are keys of the symptom table it
\* reads, each once: symptom_map for the engine's extract_symptoms_from_text,
\* SYMPTOM_MAP for the processor's _extract_symptoms
ExtractedAreCanonical ==
    /\ call = "extract_symptoms_from_text" =>
        /\ \A i \in 1..Len(result) : \E k \in 1..Len(symptom_map) : symptom_map[k][1] = result[i]
        /\ NoRepeats(result)
    /\ call = "nlp_extract" =>
        /\ \A i \in 1..Len(result) : \E k \in 1..Len(SYMPTOM_MAP) : SYMPTOM_MAP[k][1] = result[i]
        /\ NoRepeats(result)

\* a diagnosed result of advanced_diagnose: a scored primary condition, not
\* the 'unknown' of its two early returns
IsDiagnosed(diagnosis) ==
    /\ diagnosis.primary_diagnosis.condition # Str("unknown")
    /\ "score" \in DOMAIN diagnosis.primary_diagnosis
    /\ "message" \notin DOMAIN diagnosis.primary_diagnosis

\* C25: when the extractor has returned a non-empty list (symptoms that are
\* keys of symptom_map), advanced_diagnose returns a diagnosed primary
\* condition, never 'unknown'
DiagnosedWhenExtracted ==
    /\ call = "advanced_diagnose_symptoms"
    /\ Len(result.symptoms) > 0
    /\ \A i \in 1..Len(result.symptoms) :
            \E k \in 1..Len(symptom_map) : symptom_map[k][1] = result.symptoms[i]
    => IsDiagnosed(result.diagnosis)

\* two extracted symptoms that are in no profile: only their primary
\* conditions score
DiagnosedWhenExtractedWitness ==
    /\ call = "advanced_diagnose_symptoms"
    /\ Len(result.symptoms) = 2
    /\ \A i \in 1..Len(result.symptoms) :
            /\ \E k \in 1..Len(symptom_map) : symptom_map[k][1] = result.symptoms[i]
            /\ \A d \in 1..Len(disease_symptoms) :
                    \A j \in 1..Len(disease_symptoms[d][2]) :
                        disease_symptoms[d][2][j] # result.symptoms[i]
    /\ IsDiagnosed(result.diagnosis)

\* the same from the text: a text the engine's extractor finds a symptom in
\* is diagnosed
DiagnosedWhenExtractedFromText ==
    call = "advanced_diagnose" /\ extract_symptoms_from_text(text) # {} =>
        IsDiagnosed(result)

\* the label of a primary diagnosis by the number of extracted symptoms
LabelByCount(symptom_count) ==
    IF symptom_count >= 3 THEN "very high"
    ELSE IF symptom_count = 2 THEN "high"
    ELSE "medium"

\* a diagnosed result whose primary diagnosis has the score 1.0 and the label
\* of its number of extracted symptoms
PrimaryLabelled(diagnosis) ==
    /\ diagnosis.primary_diagnosis.score = One
    /\ diagnosis.primary_diagnosis.confidence = LabelByCount(Len(diagnosis.extracted_symptoms))

\* C26: a diagnosed result of advanced_diagnose has a primary diagnosis of
\* score exactly 1.0, labelled 'medium' for one extracted symptom, 'high' for
\* two and 'very high' for three or more, never 'low' or 'very low'
PrimaryConfidenceByCount ==
    /\ call = "advanced_diagnose" /\ "score" \in DOMAIN result.primary_diagnosis =>
            PrimaryLabelled(result)
    /\ call = "advanced_diagnose_symptoms"
            /\ "score" \in DOMAIN result.diagnosis.primary_diagnosis =>
            PrimaryLabelled(result.diagnosis)

\* a text with three extracted symptoms, diagnosed with 'very high'
PrimaryConfidenceByCountWitness ==
    /\ call = "advanced_diagnose"
    /\ "score" \in DOMAIN result.primary_diagnosis
    /\ Len(result.extracted_symptoms) = 3
    /\ result.primary_diagnosis.confidence = "very high"

\* a dict as the mapping it is: its items without their order
ItemsOf(d) == {d[i] : i \in 1..Len(d)}

\* the conditions of a candidate list with their scores and labels
LabelsOf(candidates) ==
    {<<candidates[i].disease, candidates[i].score, candidates[i].confidence>> :
        i \in 1..Len(candidates)}

\* C27 as stated: the scorer's result depends on the set of the input
\* symptoms only: a list with the same entries in another order, or with
\* entries repeated, gets the same scores and the same confidence labels
ScoresDependOnSetOnly ==
    /\ call = "calculate_disease_probability" =>
        \A other \in SymptomLists :
            ToSet(other) = ToSet(result.symptoms) =>
                ItemsOf(calculate_disease_probability(other).scores)
                    = ItemsOf(result.outcome.scores)
    /\ call = "get_differential_diagnosis" /\ result.top_n = DefaultTopN =>
        \A other \in SymptomLists :
            ToSet(other) = ToSet(result.symptoms) =>
                \A candidates \in get_differential_diagnosis(other, DefaultTopN) :
                    LabelsOf(candidates) = LabelsOf(result.candidates)

\* C28 as stated: process_natural_language answers 'greeting' or
\* 'system_info' only for a text that describes no symptom: a text that
\* contains a key of SYMPTOM_MAP gets 'symptoms_found' with that symptom
SymptomTextsAreAnalysed ==
    call = "process_natural_language" =>
        \A k \in 1..Len(SYMPTOM_MAP) :
            Contains(Strip(Lower(text)), SYMPTOM_MAP[k][1]) =>
                /\ result.type = "symptoms_found"
                /\ \E i \in 1..Len(result.symptoms) : result.symptoms[i] = SYMPTOM_MAP[k][1]

\* a transcript whose roles alternate, starting with 'user' and ending with
\* 'assistant'
WellFormedTranscript(history) ==
    /\ Len(history) % 2 = 0
    /\ \A i \in 1..Len(history) :
            history[i].role = (IF i % 2 = 1 THEN "user" ELSE "assistant")

\* C29: every completed process_user_input, whichever branch handled it, adds
\* to conversation_history exactly one 'user' entry holding the input followed
\* by one 'assistant' entry holding the returned response, and the transcript
\* stays alternating and of even length; no other step touches the history
TranscriptGrowsByOneExchange ==
    [][/\ call' = "process_user_input" =>
            /\ conversation_history' =
                    conversation_history \o
                        <<[role |-> "user", content |-> text'],
                          [role |-> "assistant", content |-> result']>>
            /\ WellFormedTranscript(conversation_history')
       /\ call' # "process_user_input" => conversation_history' = conversation_history]_vars

\* the replies of the three follow-up handlers
FollowUpReplies ==
    {"duration_long_time", "duration_needs_attention", "duration_noted",
     "additional_information", "thank_you_for_confirming",
     "without_additional_exposure", "potential_exposure"}

\* a conversation of three turns that went through a mode switch, an analysis
\* and a follow-up reply
TranscriptGrowsByOneExchangeWitness ==
    /\ call = "process_user_input"
    /\ Len(conversation_history) = 6
    /\ conversation_history[2].content.kind = "simple_mode_activated"
    /\ conversation_history[4].content.kind = "simple_analysis"
    /\ conversation_history[6].content.kind \in FollowUpReplies

\* C30: an input is answered by one of the follow-up handlers only when the
\* assistant message just before it posed follow-up questions; such an answer
\* poses none itself, so the input after it is not consumed as a follow-up
\* reply, and without a follow-up prompt no input is
FollowUpOnlyAfterPrompt ==
    \A i \in 1..(Len(conversation_history) \div 2) :
        LET reply == conversation_history[2 * i].content
        IN  /\ reply.kind \in FollowUpReplies =>
                    /\ i > 1
                    /\ HasFollowUpQuestions(conversation_history[2 * i - 2].content)
                    /\ ~HasFollowUpQuestions(reply)
            /\ i > 1 /\ conversation_history[2 * i - 2].content.kind \in FollowUpReplies =>
                    reply.kind \notin FollowUpReplies

\* a follow-up prompt, a duration answered by the follow-up handler, and then
\* a "yes" that is no longer taken as a follow-up reply
FollowUpOnlyAfterPromptWitness ==
    /\ Len(conversation_history) = 6
    /\ HasFollowUpQuestions(conversation_history[2].content)
    /\ conversation_history[4].content.kind \in FollowUpReplies
    /\ conversation_history[5].content = Str("yes")
    /\ conversation_history[6].content.kind \notin FollowUpReplies

\* C23 as stated: under any interleaving of /analyze and /clear_session
\* requests, one chatbot is made for a session id between two clears of it, so
\* that no request's history is lost to a second one, and no chatbot answers
\* the requests of two session ids
OneChatbotPerSession ==
    \A session_id \in 1..Len(served) :
        /\ Cardinality(served[session_id].created) <= 1
        /\ \A other \in 1..Len(served) :
                other # session_id =>
                    served[other].answered \cap served[session_id].answered = {}

====
